---- MODULE Spec2Model ----
(***************************************************************************)
(* Corona validation, compact notation, canonical rotation and center-1   *)
(* enumeration of the tiling corona finder (corona.ts, corona-finder.ts).  *)
(*                                                                         *)
(* A segment is a record [size, offset]; an edge is a sequence of          *)
(* segments in the caller's order; a corona is [center, edges].  Arrays of *)
(* the source are 0-based, sequences here are 1-based: edge index ei of    *)
(* the source is edges[ei + 1].                                            *)
(***************************************************************************)
EXTENDS Integers, Sequences, FiniteSets, TLC

(* cor, allowed, result: the corona under validation, the allowedSizes
   argument and the ValidationResult; pc: the statement reached; idx: the
   position of the four nested loops; seen, unique: the locals of the
   enumeration; made, valid: how many coronas the loop has constructed and
   how many of them passed validate. *)
VARIABLES cor, allowed, result, pc, idx, seen, unique, made, valid

(* cor2, result2: a second corona and its ValidationResult; canon, canon2:
   the keys canonicalRotationEdges returned for cor and cor2; text: a
   compact string; parsed: what fromCompact made of it; retext: the parsed
   corona printed again; returned: the lists returned by the calls of the
   enumeration so far; workers: the position of each parallel worker. *)
VARIABLES cor2, result2, canon, canon2, text, parsed, retext, returned, workers

aux == <<cor2, result2, canon, canon2, text, parsed, retext, returned, workers>>

vars == <<cor, allowed, result, pc, idx, seen, unique, made, valid, aux>>

(***************************************************************************)
(* Bounds of the input space                                               *)
(***************************************************************************)
MaxCenter == 2
MaxSegs == 2

(* default allowedSizes = [1, 2, 3, 4] *)
MaxAllowed == 4
DefaultAllowed == 1..MaxAllowed

Seg(s, o) == [size |-> s, offset |-> o]

NoReason == "undefined"
NoWhere == [ei |-> -1, segs |-> <<>>, lastSegSizes |-> <<>>]

(***************************************************************************)
(* Array.prototype.sort with a comparator: a stable sort.  cmp < 0 puts a  *)
(* first; elements that compare equal keep their order.                    *)
(***************************************************************************)
CmpOffsetSize(a, b) ==
    IF a.offset # b.offset THEN a.offset - b.offset ELSE a.size - b.size

CmpOffset(a, b) == a.offset - b.offset

(* the comparator handed to sort: "offset,size" or "offset" *)
Compare(cmp, a, b) ==
    IF cmp = "offset,size" THEN CmpOffsetSize(a, b) ELSE CmpOffset(a, b)

RECURSIVE InsertBy(_, _, _)
InsertBy(cmp, sorted, x) ==
    IF sorted = <<>> THEN <<x>>
    ELSE IF Compare(cmp, sorted[Len(sorted)], x) <= 0 THEN Append(sorted, x)
    ELSE Append(InsertBy(cmp, SubSeq(sorted, 1, Len(sorted) - 1), x),
                sorted[Len(sorted)])

RECURSIVE SortFrom(_, _, _, _)
SortFrom(cmp, arr, i, acc) ==
    IF i > Len(arr) THEN acc
    ELSE SortFrom(cmp, arr, i + 1, InsertBy(cmp, acc, arr[i]))

SortBy(cmp, arr) == SortFrom(cmp, arr, 1, <<>>)

SortSegs(edge) == SortBy("offset,size", edge)

(* variant: the corner step takes the segments in the caller's order *)
SortSegsByOffsetNone(edge) == edge

SortSegsByOffset(edge) == SortBy("offset", edge)

(***************************************************************************)
(* Corona.validate: the per-edge loop body                                 *)
(***************************************************************************)
Fail(reason, ei, segs) ==
    [ok |-> FALSE, reason |-> reason,
     where |-> [ei |-> ei, segs |-> segs, lastSegSizes |-> <<>>]]

Pass == [ok |-> TRUE, reason |-> NoReason, where |-> NoWhere]

(* for (const seg of segs) { size; offset; center-sized aligned } *)
RECURSIVE SegLoop(_, _, _, _, _)
SegLoop(segs, i, c, allowedSizes, ei) ==
    IF i > Len(segs) THEN Pass
    ELSE LET seg == segs[i] IN
         IF seg.size \notin allowedSizes \/ seg.size <= 0
           THEN Fail("invalid segment size", ei, <<seg>>)
         ELSE IF seg.offset < 0 \/ seg.offset > c
           THEN Fail("offset out of range", ei, <<seg>>)
         ELSE IF seg.size = c /\ seg.offset = 0
           THEN Fail("not unilateral (center-sized aligned)", ei, <<seg>>)
         ELSE SegLoop(segs, i + 1, c, allowedSizes, ei)

(* for (i < segs.length - 1) if (a.size === b.size) *)
RECURSIVE AdjLoop(_, _, _)
AdjLoop(segs, i, ei) ==
    IF i > Len(segs) - 1 THEN Pass
    ELSE IF segs[i].size = segs[i + 1].size
      THEN Fail("not unilateral (equal adjacent sizes)", ei, <<segs[i], segs[i + 1]>>)
    ELSE AdjLoop(segs, i + 1, ei)

(* for (i < segs.length - 1) if (nxt.offset !== prev.offset + prev.size) *)
RECURSIVE WalkLoop(_, _, _)
WalkLoop(segs, i, ei) ==
    IF i > Len(segs) - 1 THEN Pass
    ELSE IF segs[i + 1].offset # segs[i].offset + segs[i].size
      THEN Fail("invalid edge walk", ei, <<segs[i], segs[i + 1]>>)
    ELSE WalkLoop(segs, i + 1, ei)

(* variant: coverage compared against c - 1 *)
validateEdgeShortCoverage(edge, c, allowedSizes, ei) ==
    IF Len(edge) = 0 THEN Fail("edge empty", ei, <<>>)
    ELSE LET segs == SortSegs(edge)
             r1 == SegLoop(segs, 1, c, allowedSizes, ei)
             r2 == AdjLoop(segs, 1, ei)
             r3 == WalkLoop(segs, 1, ei)
             currentEnd == segs[Len(segs)].offset + segs[Len(segs)].size
         IN IF ~r1.ok THEN r1
            ELSE IF ~r2.ok THEN r2
            ELSE IF segs[1].offset # 0 THEN Fail("edge does not start at 0", ei, <<>>)
            ELSE IF ~r3.ok THEN r3
            ELSE IF currentEnd < c - 1
              THEN Fail("edge does not reach center length", ei, <<>>)
            ELSE Pass

(* variant: the start of the walk is tested before the adjacent sizes *)
validateEdgeStartFirst(edge, c, allowedSizes, ei) ==
    IF Len(edge) = 0 THEN Fail("edge empty", ei, <<>>)
    ELSE LET segs == SortSegs(edge)
             r1 == SegLoop(segs, 1, c, allowedSizes, ei)
             r2 == AdjLoop(segs, 1, ei)
             r3 == WalkLoop(segs, 1, ei)
             currentEnd == segs[Len(segs)].offset + segs[Len(segs)].size
         IN IF ~r1.ok THEN r1
            ELSE IF segs[1].offset # 0 THEN Fail("edge does not start at 0", ei, <<>>)
            ELSE IF ~r2.ok THEN r2
            ELSE IF ~r3.ok THEN r3
            ELSE IF currentEnd < c
              THEN Fail("edge does not reach center length", ei, <<>>)
            ELSE Pass

(* variant: the walk loop is missing *)
validateEdgeNoWalk(edge, c, allowedSizes, ei) ==
    IF Len(edge) = 0 THEN Fail("edge empty", ei, <<>>)
    ELSE LET segs == SortSegs(edge)
             r1 == SegLoop(segs, 1, c, allowedSizes, ei)
             r2 == AdjLoop(segs, 1, ei)
             currentEnd == segs[Len(segs)].offset + segs[Len(segs)].size
         IN IF ~r1.ok THEN r1
            ELSE IF ~r2.ok THEN r2
            ELSE IF segs[1].offset # 0 THEN Fail("edge does not start at 0", ei, <<>>)
            ELSE IF currentEnd < c
              THEN Fail("edge does not reach center length", ei, <<>>)
            ELSE Pass

(* variant: a size is refused only when it is not a member of allowedSizes *)
RECURSIVE SegLoopMemberOnly(_, _, _, _, _)
SegLoopMemberOnly(segs, i, c, allowedSizes, ei) ==
    IF i > Len(segs) THEN Pass
    ELSE LET seg == segs[i] IN
         IF seg.size \notin allowedSizes
           THEN Fail("invalid segment size", ei, <<seg>>)
         ELSE IF seg.offset < 0 \/ seg.offset > c
           THEN Fail("offset out of range", ei, <<seg>>)
         ELSE IF seg.size = c /\ seg.offset = 0
           THEN Fail("not unilateral (center-sized aligned)", ei, <<seg>>)
         ELSE SegLoopMemberOnly(segs, i + 1, c, allowedSizes, ei)

validateEdgeMemberOnly(edge, c, allowedSizes, ei) ==
    IF Len(edge) = 0 THEN Fail("edge empty", ei, <<>>)
    ELSE LET segs == SortSegs(edge)
             r1 == SegLoopMemberOnly(segs, 1, c, allowedSizes, ei)
             r2 == AdjLoop(segs, 1, ei)
             r3 == WalkLoop(segs, 1, ei)
             currentEnd == segs[Len(segs)].offset + segs[Len(segs)].size
         IN IF ~r1.ok THEN r1
            ELSE IF ~r2.ok THEN r2
            ELSE IF segs[1].offset # 0 THEN Fail("edge does not start at 0", ei, <<>>)
            ELSE IF ~r3.ok THEN r3
            ELSE IF currentEnd < c
              THEN Fail("edge does not reach center length", ei, <<>>)
            ELSE Pass

(* variant: an offset equal to the center is out of range *)
RECURSIVE SegLoopBelowCenter(_, _, _, _, _)
SegLoopBelowCenter(segs, i, c, allowedSizes, ei) ==
    IF i > Len(segs) THEN Pass
    ELSE LET seg == segs[i] IN
         IF seg.size \notin allowedSizes \/ seg.size <= 0
           THEN Fail("invalid segment size", ei, <<seg>>)
         ELSE IF seg.offset < 0 \/ seg.offset >= c
           THEN Fail("offset out of range", ei, <<seg>>)
         ELSE IF seg.size = c /\ seg.offset = 0
           THEN Fail("not unilateral (center-sized aligned)", ei, <<seg>>)
         ELSE SegLoopBelowCenter(segs, i + 1, c, allowedSizes, ei)

validateEdgeBelowCenter(edge, c, allowedSizes, ei) ==
    IF Len(edge) = 0 THEN Fail("edge empty", ei, <<>>)
    ELSE LET segs == SortSegs(edge)
             r1 == SegLoopBelowCenter(segs, 1, c, allowedSizes, ei)
             r2 == AdjLoop(segs, 1, ei)
             r3 == WalkLoop(segs, 1, ei)
             currentEnd == segs[Len(segs)].offset + segs[Len(segs)].size
         IN IF ~r1.ok THEN r1
            ELSE IF ~r2.ok THEN r2
            ELSE IF segs[1].offset # 0 THEN Fail("edge does not start at 0", ei, <<>>)
            ELSE IF ~r3.ok THEN r3
            ELSE IF currentEnd < c
              THEN Fail("edge does not reach center length", ei, <<>>)
            ELSE Pass

validateEdge(edge, c, allowedSizes, ei) ==
    IF Len(edge) = 0 THEN Fail("edge empty", ei, <<>>)
    ELSE LET segs == SortSegs(edge)
             r1 == SegLoop(segs, 1, c, allowedSizes, ei)
             r2 == AdjLoop(segs, 1, ei)
             r3 == WalkLoop(segs, 1, ei)
             currentEnd == segs[Len(segs)].offset + segs[Len(segs)].size
         IN IF ~r1.ok THEN r1
            ELSE IF ~r2.ok THEN r2
            ELSE IF segs[1].offset # 0 THEN Fail("edge does not start at 0", ei, <<>>)
            ELSE IF ~r3.ok THEN r3
            ELSE IF currentEnd < c
              THEN Fail("edge does not reach center length", ei, <<>>)
            ELSE Pass

(* for (let ei = 0; ei < this.edges.length; ei++) *)
RECURSIVE EdgeLoop(_, _, _, _)
EdgeLoop(edges, ei, c, allowedSizes) ==
    IF ei >= Len(edges) THEN Pass
    ELSE LET r == validateEdge(edges[ei + 1], c, allowedSizes, ei) IN
         IF ~r.ok THEN r ELSE EdgeLoop(edges, ei + 1, c, allowedSizes)

(***************************************************************************)
(* Corona.validate: the corner gap check                                   *)
(***************************************************************************)
LastSeg(edge) == LET segs == SortSegsByOffset(edge) IN segs[Len(segs)]

FirstSeg(edge) == SortSegsByOffset(edge)[1]

Overhang(edge, c) == LastSeg(edge).offset + LastSeg(edge).size - c

(* variant: the corner between the last edge and the first is not looked at *)
CornerGapAtNoWrap(edges, ei, c) ==
    /\ ei < 3
    /\ Overhang(edges[ei + 1], c) = 1
    /\ FirstSeg(edges[ei + 2]).size = 1

(* variant: an overhang of 1 makes a corner gap whatever the next edge starts with *)
CornerGapAtOverhangOnly(edges, ei, c) == Overhang(edges[ei + 1], c) = 1

(* variant: the overhang of an edge is paired with the edge before it *)
CornerGapAtPrevious(edges, ei, c) ==
    /\ Overhang(edges[ei + 1], c) = 1
    /\ FirstSeg(edges[((ei + 3) % 4) + 1]).size = 1

CornerGapAt(edges, ei, c) ==
    /\ Overhang(edges[ei + 1], c) = 1
    /\ FirstSeg(edges[((ei + 1) % 4) + 1]).size = 1

LastSegSizes(edges) == [k \in 1..4 |-> LastSeg(edges[k]).size]

(* variant: the last edge is left out of the comparison of last sizes *)
CornerCheckThreeSizes(edges, c) ==
    LET hasCornerGap == \E ei \in 0..3 : CornerGapAt(edges, ei, c)
        lastSegSizes == LastSegSizes(edges)
        allSameLastSeg == \A k \in 1..3 : lastSegSizes[k] = lastSegSizes[1]
    IN IF hasCornerGap /\ ~allSameLastSeg
         THEN [ok |-> FALSE, reason |-> "1x1 corner gap with asymmetric edges",
               where |-> [ei |-> -1, segs |-> <<>>, lastSegSizes |-> lastSegSizes]]
       ELSE Pass

(* variant: the reason string of the unit tests *)
CornerCheckIsolatedReason(edges, c) ==
    LET hasCornerGap == \E ei \in 0..3 : CornerGapAt(edges, ei, c)
        lastSegSizes == LastSegSizes(edges)
        allSameLastSeg == \A k \in 1..4 : lastSegSizes[k] = lastSegSizes[1]
    IN IF hasCornerGap /\ ~allSameLastSeg
         THEN [ok |-> FALSE, reason |-> "isolated 1x1 square trapped by larger squares",
               where |-> [ei |-> -1, segs |-> <<>>, lastSegSizes |-> lastSegSizes]]
       ELSE Pass

CornerCheck(edges, c) ==
    LET hasCornerGap == \E ei \in 0..3 : CornerGapAt(edges, ei, c)
        lastSegSizes == LastSegSizes(edges)
        allSameLastSeg == \A k \in 1..4 : lastSegSizes[k] = lastSegSizes[1]
    IN IF hasCornerGap /\ ~allSameLastSeg
         THEN [ok |-> FALSE, reason |-> "1x1 corner gap with asymmetric edges",
               where |-> [ei |-> -1, segs |-> <<>>, lastSegSizes |-> lastSegSizes]]
       ELSE Pass

(* variant: the highest-index failing edge is reported *)
validateLastEdgeFirst(corona, allowedSizes) ==
    LET c == corona.center IN
    IF c <= 0
      THEN [ok |-> FALSE, reason |-> "center must be a positive integer", where |-> NoWhere]
    ELSE IF Len(corona.edges) # 4
      THEN [ok |-> FALSE, reason |-> "edges must have length 4", where |-> NoWhere]
    ELSE LET bad == {ei \in 0..3 : ~validateEdge(corona.edges[ei + 1], c, allowedSizes, ei).ok}
         IN IF bad # {}
              THEN LET last == CHOOSE ei \in bad : \A m \in bad : m <= ei
                   IN validateEdge(corona.edges[last + 1], c, allowedSizes, last)
              ELSE CornerCheck(corona.edges, c)

(***************************************************************************)
(* Corona.validate                                                         *)
(***************************************************************************)
(* variant: only too few edges are refused *)
validateAtLeastFour(corona, allowedSizes) ==
    LET c == corona.center IN
    IF c <= 0
      THEN [ok |-> FALSE, reason |-> "center must be a positive integer", where |-> NoWhere]
    ELSE IF Len(corona.edges) < 4
      THEN [ok |-> FALSE, reason |-> "edges must have length 4", where |-> NoWhere]
    ELSE LET r == EdgeLoop(corona.edges, 0, c, allowedSizes) IN
         IF ~r.ok THEN r ELSE CornerCheck(corona.edges, c)

validate(corona, allowedSizes) ==
    LET c == corona.center IN
    IF c <= 0
      THEN [ok |-> FALSE, reason |-> "center must be a positive integer", where |-> NoWhere]
    ELSE IF Len(corona.edges) # 4
      THEN [ok |-> FALSE, reason |-> "edges must have length 4", where |-> NoWhere]
    ELSE LET r == EdgeLoop(corona.edges, 0, c, allowedSizes) IN
         IF ~r.ok THEN r ELSE CornerCheck(corona.edges, c)

(* validate(): the parameter takes its default *)
validateDefault(corona) == validate(corona, DefaultAllowed)

(***************************************************************************)
(* Strings are sequences of UTF-16 code units.                             *)
(***************************************************************************)
ChOpen == 91
ChClose == 93
ChComma == 44
ChSemi == 59
ChMinus == 45
ChZero == 48

RECURSIVE Digits(_)
Digits(n) ==
    IF n < 10 THEN <<ChZero + n>>
    ELSE Append(Digits(n \div 10), ChZero + (n % 10))

(* JSON.stringify of an integer *)
NumStr(n) == IF n < 0 THEN <<ChMinus>> \o Digits(0 - n) ELSE Digits(n)

(* Array.prototype.join *)
RECURSIVE Join(_, _)
Join(strs, sep) ==
    IF Len(strs) = 0 THEN <<>>
    ELSE IF Len(strs) = 1 THEN strs[1]
    ELSE strs[1] \o sep \o Join(Tail(strs), sep)

(* JSON.stringify of an array of already serialized items *)
JsonArray(items) == <<ChOpen>> \o Join(items, <<ChComma>>) \o <<ChClose>>

(* comparison of strings by code units, as the default Array.prototype.sort *)
RECURSIVE StrLessFrom(_, _, _)
StrLessFrom(a, b, i) ==
    IF i > Len(b) THEN FALSE
    ELSE IF i > Len(a) THEN TRUE
    ELSE IF a[i] # b[i] THEN a[i] < b[i]
    ELSE StrLessFrom(a, b, i + 1)

StrLess(a, b) == StrLessFrom(a, b, 1)

(***************************************************************************)
(* canonicalRotationEdges                                                  *)
(***************************************************************************)
(* variant: the segments are serialized in the caller's order *)
edgeKeyUnsorted(e) ==
    JsonArray([i \in 1..Len(e) |->
                  JsonArray(<<NumStr(e[i].size), NumStr(e[i].offset)>>)])

edgeKey(e) ==
    LET sorted == SortSegs(e) IN
    JsonArray([i \in 1..Len(sorted) |->
                  JsonArray(<<NumStr(sorted[i].size), NumStr(sorted[i].offset)>>)])

(* [...edges.slice(k), ...edges.slice(0, k)] *)
Rotate(edges, k) ==
    [j \in 1..Len(edges) |-> edges[((j - 1 + k) % Len(edges)) + 1]]

rotKey(edges, k) ==
    LET rot == Rotate(edges, k) IN
    Join([j \in 1..Len(rot) |-> edgeKey(rot[j])], <<ChSemi>>)

(* variant: the last rotation is not generated *)
canonicalRotationEdgesThree(edges) ==
    LET keys == {rotKey(edges, k) : k \in 0..2} IN
    CHOOSE key \in keys : \A other \in keys : ~StrLess(other, key)

(* variant: the rotations of the reversed tuple are keys as well *)
canonicalRotationEdgesMirror(edges) ==
    LET mirror == [j \in 1..Len(edges) |-> edges[Len(edges) + 1 - j]]
        keys == {rotKey(edges, k) : k \in 0..3} \cup {rotKey(mirror, k) : k \in 0..3}
    IN CHOOSE key \in keys : \A other \in keys : ~StrLess(other, key)

(* variant: keys is not sorted before keys[0] is returned *)
canonicalRotationEdgesFirst(edges) == rotKey(edges, 0)

canonicalRotationEdges(edges) ==
    LET keys == {rotKey(edges, k) : k \in 0..3} IN
    CHOOSE key \in keys : \A other \in keys : ~StrLess(other, key)

(***************************************************************************)
(* Inputs: the coronas a caller can construct                              *)
(***************************************************************************)
NumEdges == 4

SizeDomain == 0..(MaxAllowed + 1)

OffsetDomain(c) == (0 - 1)..(c + 1)

SegDomain(c) == {Seg(s, o) : s \in SizeDomain, o \in OffsetDomain(c)}

SeqsUpTo(S, n) == UNION {[1..k -> S] : k \in 0..n}

ArbEdges(c) == SeqsUpTo(SegDomain(c), MaxSegs)

CenterDomain == (0 - 1)..MaxCenter

AllowedChoices == {DefaultAllowed, {0, 1, 3}}

(* edges that pass the per-edge loop, in sorted order *)
WalkTable ==
    UNION {LET bc == IF c >= 1 THEN c ELSE 1 IN
           {<<c, allowedSizes, e>> :
               e \in {x \in ArbEdges(bc) :
                        validateEdge(x, bc, allowedSizes, 0).ok /\ SortSegs(x) = x}} :
           c \in CenterDomain, allowedSizes \in AllowedChoices}

Walks(c, allowedSizes) ==
    {t[3] : t \in {u \in WalkTable : u[1] = c /\ u[2] = allowedSizes}}

(* four walks, any combination *)
WalkCorona(corona, c, allowedSizes) ==
    \E es \in [1..NumEdges -> Walks(c, allowedSizes)] :
        corona = [center |-> c, edges |-> es]

(* single-segment walks *)
PlainWalks(c, allowedSizes) == {w \in Walks(c, allowedSizes) : Len(w) = 1}

(* one arbitrary edge, at any index, among three copies of a single-segment walk *)
OneEdgeCorona(corona, c, allowedSizes) ==
    \E w \in PlainWalks(c, allowedSizes), i \in 1..NumEdges, e \in ArbEdges(c) :
        corona = [center |-> c, edges |-> [k \in 1..NumEdges |-> IF k = i THEN e ELSE w]]

(* any other number of edges *)
CountCorona(corona, c, allowedSizes) ==
    \E w \in Walks(c, allowedSizes), n \in (0..(NumEdges + 1)) \ {NumEdges} :
        corona = [center |-> c, edges |-> [k \in 1..n |-> w]]

(***************************************************************************)
(* Specification of validation: a caller builds a corona and validates it  *)
(***************************************************************************)
Pending == [ok |-> FALSE, reason |-> "pending", where |-> NoWhere]

NoCorona == [center |-> 0, edges |-> <<>>]

NotParsed == [ok |-> FALSE, message |-> "not called", token |-> <<>>, corona |-> NoCorona]

(* nothing but the variables of the run at hand is in use *)
InitAux ==
    /\ cor2 = NoCorona
    /\ result2 = Pending
    /\ canon = <<>>
    /\ canon2 = <<>>
    /\ text = <<>>
    /\ parsed = NotParsed
    /\ retext = <<>>
    /\ returned = <<>>
    /\ workers = <<>>

Init ==
    /\ allowed \in AllowedChoices
    /\ \E c \in CenterDomain :
          \/ WalkCorona(cor, c, allowed)
          \/ OneEdgeCorona(cor, c, allowed)
          \/ CountCorona(cor, c, allowed)
    /\ result = Pending
    /\ pc = "input"
    /\ idx = <<>>
    /\ seen = {}
    /\ unique = <<>>
    /\ made = 0
    /\ valid = 0
    /\ InitAux

Validate ==
    /\ pc = "input"
    /\ result' = validate(cor, allowed)
    /\ pc' = "validated"
    /\ UNCHANGED <<cor, allowed, idx, seen, unique, made, valid, aux>>

Next == Validate

Spec == Init /\ [][Next]_vars

(***************************************************************************)
(* enumerateUniqueCoronasCenter1: one step per statement of the loop body  *)
(***************************************************************************)
EnumCenter == 1

EnumAllowed == {1, 2, 3, 4}

(* variant: the walk of size 4 is missing *)
edgeChoicesTwo == << <<Seg(2, 0)>>, <<Seg(3, 0)>> >>

edgeChoices == << <<Seg(2, 0)>>, <<Seg(3, 0)>>, <<Seg(4, 0)>> >>

FirstIdx == <<1, 1, 1, 1>>

LastIdx == [k \in 1..4 |-> Len(edgeChoices)]

(* variant: the loop over e0 is the innermost *)
NextIdxFirstInnermost(i) ==
    LET n == Len(edgeChoices) IN
    IF i[1] < n THEN <<i[1] + 1, i[2], i[3], i[4]>>
    ELSE IF i[2] < n THEN <<1, i[2] + 1, i[3], i[4]>>
    ELSE IF i[3] < n THEN <<1, 1, i[3] + 1, i[4]>>
    ELSE <<1, 1, 1, i[4] + 1>>

(* the four nested for-of loops: e3 innermost *)
NextIdx(i) ==
    LET n == Len(edgeChoices) IN
    IF i[4] < n THEN <<i[1], i[2], i[3], i[4] + 1>>
    ELSE IF i[3] < n THEN <<i[1], i[2], i[3] + 1, 1>>
    ELSE IF i[2] < n THEN <<i[1], i[2] + 1, 1, 1>>
    ELSE <<i[1] + 1, 1, 1, 1>>

(* continue, or fall out of the loops to return unique *)
Continue ==
    IF idx = LastIdx
      THEN pc' = "done" /\ idx' = idx
      ELSE pc' = "make" /\ idx' = NextIdx(idx)

InitEnum ==
    /\ allowed = EnumAllowed
    /\ cor = [center |-> EnumCenter, edges |-> <<>>]
    /\ result = Pending
    /\ pc = "make"
    /\ idx = FirstIdx
    /\ seen = {}
    /\ unique = <<>>
    /\ made = 0
    /\ valid = 0
    /\ InitAux

(* const cor = new Corona(c, [e0, e1, e2, e3]) *)
EnumMake ==
    /\ pc = "make"
    /\ cor' = [center |-> EnumCenter, edges |-> [k \in 1..4 |-> edgeChoices[idx[k]]]]
    /\ made' = made + 1
    /\ pc' = "validate"
    /\ UNCHANGED <<allowed, result, idx, seen, unique, valid, aux>>

(* if (!cor.validate(allowedSizes).ok) continue *)
EnumValidate ==
    /\ pc = "validate"
    /\ result' = validate(cor, allowed)
    /\ IF result'.ok
         THEN pc' = "dedup" /\ valid' = valid + 1 /\ idx' = idx
         ELSE Continue /\ valid' = valid
    /\ UNCHANGED <<cor, allowed, seen, unique, made, aux>>

(* variant: the key is never recorded *)
EnumDedupNoAdd ==
    /\ pc = "dedup"
    /\ LET key == canonicalRotationEdges(cor.edges) IN
       IF key \in seen
         THEN UNCHANGED <<seen, unique>>
         ELSE seen' = seen /\ unique' = Append(unique, cor)
    /\ Continue
    /\ UNCHANGED <<cor, allowed, result, made, valid, aux>>

(* key = canonicalRotationEdges(cor.edges); if (seen.has(key)) continue;
   seen.add(key); unique.push(cor) *)
EnumDedup ==
    /\ pc = "dedup"
    /\ LET key == canonicalRotationEdges(cor.edges) IN
       IF key \in seen
         THEN UNCHANGED <<seen, unique>>
         ELSE seen' = seen \cup {key} /\ unique' = Append(unique, cor)
    /\ Continue
    /\ UNCHANGED <<cor, allowed, result, made, valid, aux>>

(* a caller validates a corona of its own against the returned list *)
Probe ==
    /\ pc = "done"
    /\ \/ WalkCorona(cor', EnumCenter, allowed)
       \/ OneEdgeCorona(cor', EnumCenter, allowed)
       \/ CountCorona(cor', EnumCenter, allowed)
    /\ result' = validate(cor', allowed)
    /\ pc' = "probed"
    /\ UNCHANGED <<allowed, idx, seen, unique, made, valid, aux>>

NextEnum == EnumMake \/ EnumValidate \/ EnumDedup \/ Probe

SpecEnum == InitEnum /\ [][NextEnum]_vars

(***************************************************************************)
(* The validation rules, stated per rule on the (offset, size)-sorted edge *)
(***************************************************************************)
Validated == pc = "validated"

SegsOf(edge) == {edge[i] : i \in 1..Len(edge)}

RuleNonEmpty(edge) == Len(edge) > 0

RuleSize(edge, allowedSizes) ==
    \A seg \in SegsOf(edge) : seg.size \in allowedSizes /\ seg.size > 0

RuleOffset(edge, c) ==
    \A seg \in SegsOf(edge) : seg.offset \in 0..c

RuleNotAligned(edge, c) ==
    \A seg \in SegsOf(edge) : ~(seg.size = c /\ seg.offset = 0)

RuleAdjacent(edge) ==
    LET s == SortSegs(edge) IN
    \A i \in 1..(Len(s) - 1) : s[i].size # s[i + 1].size

RuleStart(edge) ==
    Len(edge) > 0 => SortSegs(edge)[1].offset = 0

RuleWalk(edge) ==
    LET s == SortSegs(edge) IN
    \A i \in 1..(Len(s) - 1) : s[i + 1].offset = s[i].offset + s[i].size

RuleCoverage(edge, c) ==
    LET s == SortSegs(edge) IN
    Len(s) > 0 => s[Len(s)].offset + s[Len(s)].size >= c

EdgeRules(edge, c, allowedSizes) ==
    /\ RuleNonEmpty(edge)
    /\ RuleSize(edge, allowedSizes)
    /\ RuleOffset(edge, c)
    /\ RuleNotAligned(edge, c)
    /\ RuleAdjacent(edge)
    /\ RuleStart(edge)
    /\ RuleWalk(edge)
    /\ RuleCoverage(edge, c)

(* corner i of a corona with four non-empty edges: overhang 1 meets a first size 1 *)
GapAtCorner(edges, i, c) ==
    LET s == SortSegs(edges[i + 1])
        n == SortSegs(edges[((i + 1) % 4) + 1])
    IN /\ s[Len(s)].offset + s[Len(s)].size - c = 1
       /\ n[1].size = 1

SomeCornerGap(edges, c) == \E i \in 0..3 : GapAtCorner(edges, i, c)

LastSizesEqual(edges) ==
    \A i, j \in 1..4 :
        SortSegs(edges[i])[Len(edges[i])].size = SortSegs(edges[j])[Len(edges[j])].size

RuleCorner(edges, c) == SomeCornerGap(edges, c) => LastSizesEqual(edges)

AllEdgeRules(corona, allowedSizes) ==
    /\ corona.center > 0
    /\ Len(corona.edges) = 4
    /\ \A k \in 1..4 : EdgeRules(corona.edges[k], corona.center, allowedSizes)

ValidByRules(corona, allowedSizes) ==
    /\ AllEdgeRules(corona, allowedSizes)
    /\ RuleCorner(corona.edges, corona.center)

(* C1: validate returns ok = true exactly when the center is positive, there
   are 4 edges, every edge passes every edge rule on its sorted segments, and
   no corner has a 1x1 gap unless all four last-segment sizes are equal. *)
C1_OkIffAllRules ==
    Validated => (result.ok <=> ValidByRules(cor, allowed))

C1_Witness ==
    /\ Validated
    /\ result.ok
    /\ SomeCornerGap(cor.edges, cor.center)
    /\ \E k \in 1..4 : Len(cor.edges[k]) > 1 /\ SortSegs(cor.edges[k]) # cor.edges[k]

CornerReason == "1x1 corner gap with asymmetric edges"

(* C2: for a corona whose four edges pass the edge rules, validate fails with
   the corner gap reason exactly when some corner has a 1x1 gap and the four
   last-segment sizes are not all equal; otherwise the corona is valid. *)
C2_CornerGapRule ==
    (Validated /\ AllEdgeRules(cor, allowed)) =>
        LET trapped == SomeCornerGap(cor.edges, cor.center) /\ ~LastSizesEqual(cor.edges)
        IN /\ (~result.ok /\ result.reason = CornerReason) <=> trapped
           /\ ~trapped => result.ok

C2_Witness ==
    /\ Validated
    /\ AllEdgeRules(cor, allowed)
    /\ result.reason = CornerReason
    /\ \E i \in 0..3 : ~GapAtCorner(cor.edges, i, cor.center)

(* C3: a corona with 1x1 corner gaps and unequal last-segment sizes is rejected
   with the reason "isolated 1x1 square trapped by larger squares". *)
C3_IsolatedReason ==
    (/\ Validated
     /\ AllEdgeRules(cor, allowed)
     /\ SomeCornerGap(cor.edges, cor.center)
     /\ ~LastSizesEqual(cor.edges))
        => (~result.ok /\ result.reason = "isolated 1x1 square trapped by larger squares")

(* C4: validation is purely edge-based: a corona with a positive center and
   four edges that each pass the edge rules is always valid. *)
C4_EdgeBasedOnly ==
    (Validated /\ AllEdgeRules(cor, allowed)) => result.ok

(***************************************************************************)
(* Reasons per edge                                                        *)
(***************************************************************************)
SizeReason == "invalid segment size"
OffsetReason == "offset out of range"
AlignedReason == "not unilateral (center-sized aligned)"
AdjacentReason == "not unilateral (equal adjacent sizes)"
StartReason == "edge does not start at 0"
WalkReason == "invalid edge walk"
CoverageReason == "edge does not reach center length"

(* the edge validate stopped at: where.ei *)
FailedEdge == cor.edges[result.where.ei + 1]

(* reasons of the rules the edge fails, from 3d on, in the order d e f g *)
LaterReason(edge, c) ==
    IF ~RuleAdjacent(edge) THEN AdjacentReason
    ELSE IF ~RuleStart(edge) THEN StartReason
    ELSE IF ~RuleWalk(edge) THEN WalkReason
    ELSE IF ~RuleCoverage(edge, c) THEN CoverageReason
    ELSE NoReason

(* the reasons the order 3a 3b 3c 3d 3e 3f 3g allows for an edge *)
ClaimedReasons(edge, c, allowedSizes) ==
    IF ~RuleNonEmpty(edge) THEN {"edge empty"}
    ELSE IF ~RuleSize(edge, allowedSizes) \/ ~RuleOffset(edge, c)
      THEN {r \in {SizeReason, OffsetReason} :
              \/ r = SizeReason /\ ~RuleSize(edge, allowedSizes)
              \/ r = OffsetReason /\ ~RuleOffset(edge, c)}
    ELSE IF ~RuleNotAligned(edge, c) THEN {AlignedReason}
    ELSE {LaterReason(edge, c)}

(* C5 as stated: the reason reported for an edge is the reason of the earliest
   check, in the order 3a 3b 3c 3d 3e 3f 3g, that the edge fails; an edge with a
   3b failure and a center-sized aligned segment gets the 3b reason. *)
C5_RuleOrder ==
    (Validated /\ result.where.ei >= 0) =>
        result.reason \in ClaimedReasons(FailedEdge, cor.center, allowed)

(* what is wrong with one segment: size, then offset, then alignment *)
SegFault(seg, c, allowedSizes) ==
    IF ~(seg.size \in allowedSizes /\ seg.size > 0) THEN SizeReason
    ELSE IF seg.offset \notin 0..c THEN OffsetReason
    ELSE IF seg.size = c /\ seg.offset = 0 THEN AlignedReason
    ELSE NoReason

SegmentOrderReason(edge, c, allowedSizes) ==
    IF ~RuleNonEmpty(edge) THEN "edge empty"
    ELSE LET s == SortSegs(edge)
             bad == {i \in 1..Len(s) : SegFault(s[i], c, allowedSizes) # NoReason}
         IN IF bad # {}
              THEN SegFault(s[CHOOSE i \in bad : \A j \in bad : i <= j], c, allowedSizes)
              ELSE LaterReason(edge, c)

(* C5 amended: 3b and 3c are checked segment by segment in sorted order, so the
   reason is that of the first sorted segment with an illegal size, an offset
   out of range or a center-sized alignment (tested in this order on that
   segment); only when no segment has such a fault do 3d 3e 3f 3g decide. *)
C5_SegmentOrder ==
    (Validated /\ result.where.ei >= 0) =>
        result.reason = SegmentOrderReason(FailedEdge, cor.center, allowed)

(* an edge whose first sorted segment is center-sized aligned and whose later
   segment has an illegal size *)
C5_Witness ==
    /\ Validated
    /\ result.where.ei >= 0
    /\ result.reason = AlignedReason
    /\ ~RuleSize(FailedEdge, allowed)

ReasonSet ==
    {"center must be a positive integer", "edges must have length 4", "edge empty",
     SizeReason, OffsetReason, AlignedReason, AdjacentReason, StartReason,
     WalkReason, CoverageReason, CornerReason}

(* C6: validate returns a result for every corona; ok = true carries no
   reason and ok = false carries a reason of the fixed set. *)
C6_TotalWithKnownReason ==
    /\ pc = "input" => validate(cor, allowed).ok \in BOOLEAN
    /\ Validated =>
          /\ result.ok => result.reason = NoReason
          /\ ~result.ok => result.reason \in ReasonSet

C6_Witness ==
    /\ Validated
    /\ ~result.ok
    /\ result.reason = CornerReason

(* the checks of validate, each as a rule of the whole corona *)
CheckHolds(corona, allowedSizes, r) ==
    LET c == corona.center
        es == corona.edges
    IN CASE r = "center must be a positive integer" -> c > 0
         [] r = "edges must have length 4" -> Len(es) = 4
         [] r = "edge empty" -> \A k \in 1..Len(es) : RuleNonEmpty(es[k])
         [] r = SizeReason -> \A k \in 1..Len(es) : RuleSize(es[k], allowedSizes)
         [] r = OffsetReason -> \A k \in 1..Len(es) : RuleOffset(es[k], c)
         [] r = AlignedReason -> \A k \in 1..Len(es) : RuleNotAligned(es[k], c)
         [] r = AdjacentReason -> \A k \in 1..Len(es) : RuleAdjacent(es[k])
         [] r = StartReason -> \A k \in 1..Len(es) : RuleStart(es[k])
         [] r = WalkReason -> \A k \in 1..Len(es) : RuleWalk(es[k])
         [] r = CoverageReason -> \A k \in 1..Len(es) : RuleCoverage(es[k], c)
         [] r = CornerReason ->
              (Len(es) = 4 /\ \A k \in 1..4 : RuleNonEmpty(es[k])) => RuleCorner(es, c)

FailingChecks(corona, allowedSizes) ==
    {r \in ReasonSet : ~CheckHolds(corona, allowedSizes, r)}

(* C7: when exactly one check of validate fails on a corona and every other
   check passes, validate returns ok = false with that check's reason. *)
C7_MonotonicRejection ==
    Validated =>
        LET failing == FailingChecks(cor, allowed) IN
        Cardinality(failing) = 1 => (~result.ok /\ failing = {result.reason})

C7_Witness ==
    /\ Validated
    /\ FailingChecks(cor, allowed) = {OffsetReason}
    /\ result.reason = OffsetReason

(***************************************************************************)
(* Enumeration                                                             *)
(***************************************************************************)
Returned == pc \in {"done", "probed"}

(* edge tuples that differ by a cyclic rotation, edges compared as sorted lists *)
IsRotation(es, fs) ==
    /\ Len(es) = Len(fs)
    /\ \E k \in 0..3 :
          \A j \in 1..Len(es) :
              SortSegs(es[j]) = SortSegs(fs[((j - 1 + k) % Len(fs)) + 1])

(* C8: the enumeration constructs 3^4 = 81 candidates, all 81 pass validate
   with sizes {1,2,3,4}, and 24 coronas are returned. *)
C8_EightyOneToTwentyFour ==
    Returned => (made = 81 /\ valid = 81 /\ Len(unique) = 24)

C8_Witness ==
    /\ pc = "done"
    /\ made = 81
    /\ Len(unique) = 24

(* C9: at every point of the loop the retained coronas pass validate, no two
   of them are rotations of each other, the retained list and the seen-key set
   have the same size and each seen key is the canonical key of exactly one
   retained corona. *)
C9_RetainedDistinctAndValid ==
    pc \in {"make", "validate", "dedup", "done"} =>
        LET keysOfUnique ==
                {canonicalRotationEdges(unique[i].edges) : i \in 1..Len(unique)}
        IN /\ \A i \in 1..Len(unique) : validate(unique[i], EnumAllowed).ok
           /\ \A i, j \in 1..Len(unique) :
                 i # j => ~IsRotation(unique[i].edges, unique[j].edges)
           /\ Cardinality(seen) = Len(unique)
           /\ Cardinality(keysOfUnique) = Len(unique)
           /\ keysOfUnique = seen

(* a rotation-duplicate is about to be discarded *)
C9_Witness ==
    /\ pc = "dedup"
    /\ canonicalRotationEdges(cor.edges) \in seen
    /\ \A i \in 1..Len(unique) : unique[i] # cor
    /\ Len(unique) >= 2

(* C10: every corona with center 1 that validate accepts under sizes {1,2,3,4}
   has exactly one cyclic rotation among the returned coronas. *)
C10_Complete ==
    (pc = "probed" /\ result.ok) =>
        Cardinality({i \in 1..Len(unique) :
                        IsRotation(unique[i].edges, cor.edges)}) = 1

(* an accepted corona that is itself not in the list *)
C10_Witness ==
    /\ pc = "probed"
    /\ result.ok
    /\ \A i \in 1..Len(unique) : unique[i] # cor

(***************************************************************************)
(* C11: for center 1 and allowed sizes {1,2,3,4} an edge passes the        *)
(* per-edge checks exactly when it is one of the three single-segment      *)
(* walks 2^0, 3^0, 4^0 the enumeration uses; the edge 1^0 is rejected as   *)
(* center-sized aligned, and no edge of several segments is accepted.      *)
(***************************************************************************)
ChoiceSet == {edgeChoices[j] : j \in 1..Len(edgeChoices)}

C11_CenterOneWalks ==
    (pc = "probed" /\ Len(cor.edges) = NumEdges) =>
        /\ \A k \in 1..NumEdges :
              LET e == cor.edges[k]
                  r == validateEdge(e, cor.center, allowed, k - 1)
              IN /\ r.ok <=> e \in ChoiceSet
                 /\ e = <<Seg(1, 0)>> => r.reason = AlignedReason
                 /\ Len(e) > 1 => ~r.ok
        /\ result.ok <=> \A k \in 1..NumEdges : cor.edges[k] \in ChoiceSet

C11_Witness ==
    /\ pc = "probed"
    /\ Len(cor.edges) = NumEdges
    /\ cor.edges[2] = <<Seg(1, 0)>>
    /\ result.reason = AlignedReason

(***************************************************************************)
(* Two coronas and their canonical keys: a caller validates both and calls *)
(* canonicalRotationEdges on both edge tuples.                             *)
(***************************************************************************)
Reverse(s) == [i \in 1..Len(s) |-> s[Len(s) + 1 - i]]

(* every edge with its segments in the opposite order *)
ReverseEach(edges) == [j \in 1..Len(edges) |-> Reverse(edges[j])]

(* edge j replaced by w *)
WithEdge(edges, j, w) == [i \in 1..Len(edges) |-> IF i = j THEN w ELSE edges[i]]

(* the candidates of the center-1 enumeration *)
EnumCoronas ==
    {[center |-> EnumCenter, edges |-> es] : es \in [1..NumEdges -> ChoiceSet]}

(* coronas whose four edges are drawn from two walks *)
TwoWalkCoronas(c) ==
    UNION {{[center |-> c, edges |-> es] : es \in [1..NumEdges -> {w1, w2}]} :
           w1 \in Walks(c, DefaultAllowed), w2 \in Walks(c, DefaultAllowed)}

(* the same edges, as given or reordered inside *)
Reordered(corona) == {corona.edges, ReverseEach(corona.edges)}

(* one edge replaced by another walk *)
Replaced(corona) ==
    {WithEdge(corona.edges, 1, w) : w \in Walks(corona.center, DefaultAllowed)}

(* edges no walk contains: empty, negative offset, unsorted, size 0 *)
StrayEdges ==
    {<<>>, <<Seg(1, 0 - 1)>>, <<Seg(2, 1), Seg(1, 0)>>, <<Seg(0, 0)>>}

InitKey ==
    /\ allowed = DefaultAllowed
    /\ \/ cor \in EnumCoronas /\ cor2 \in EnumCoronas
       \/ \E c \in 1..MaxCenter :
             /\ cor \in TwoWalkCoronas(c)
             /\ \/ \E c2 \in 1..MaxCenter, v \in Reordered(cor), k \in 0..3 :
                      cor2 = [center |-> c2, edges |-> Rotate(v, k)]
                \/ \E v \in Replaced(cor), k \in 0..3 :
                      cor2 = [center |-> c, edges |-> Rotate(v, k)]
       \/ /\ cor \in {[center |-> EnumCenter, edges |-> es] :
                          es \in [1..NumEdges -> StrayEdges \cup {edgeChoices[1]}]}
          /\ \E k \in 0..3 : cor2 = [center |-> EnumCenter, edges |-> Rotate(cor.edges, k)]
    /\ result = Pending
    /\ result2 = Pending
    /\ canon = <<>>
    /\ canon2 = <<>>
    /\ pc = "pair"
    /\ idx = <<>>
    /\ seen = {}
    /\ unique = <<>>
    /\ made = 0
    /\ valid = 0
    /\ text = <<>>
    /\ parsed = NotParsed
    /\ retext = <<>>
    /\ returned = <<>>
    /\ workers = <<>>

(* validate() and canonicalRotationEdges(edges) of both coronas *)
KeyPair ==
    /\ pc = "pair"
    /\ result' = validate(cor, allowed)
    /\ result2' = validate(cor2, allowed)
    /\ canon' = canonicalRotationEdges(cor.edges)
    /\ canon2' = canonicalRotationEdges(cor2.edges)
    /\ pc' = "keyed"
    /\ UNCHANGED <<cor, cor2, allowed, idx, seen, unique, made, valid,
                   text, parsed, retext, returned, workers>>

NextKey == KeyPair

SpecKey == InitKey /\ [][NextKey]_vars

(***************************************************************************)
(* C12: the canonical key of a 4-edge tuple is the canonical key of each   *)
(* of its cyclic rotations, and it is the smallest, in code-unit order, of *)
(* the four rotation keys.                                                 *)
(***************************************************************************)
RotationKeys(edges) == {rotKey(edges, k) : k \in 0..3}

C12_RotationInvariant ==
    pc = "keyed" =>
        /\ (\E k \in 0..3 : cor2.edges = Rotate(cor.edges, k)) => canon2 = canon
        /\ canon \in RotationKeys(cor.edges)
        /\ \A rk \in RotationKeys(cor.edges) : ~StrLess(rk, canon)

(* a proper rotation whose own first key is not the smallest *)
C12_Witness ==
    /\ pc = "keyed"
    /\ cor2.edges # cor.edges
    /\ \E k \in 1..3 : cor2.edges = Rotate(cor.edges, k)
    /\ canon2 = canon
    /\ canon # rotKey(cor.edges, 0)
    /\ canon2 # rotKey(cor2.edges, 0)

(***************************************************************************)
(* C13: two coronas that validate accepts differ only by a cyclic rotation *)
(* of their edges, each edge taken as its sorted segment list, exactly     *)
(* when their canonical keys are equal.                                    *)
(***************************************************************************)
BothValid == pc = "keyed" /\ result.ok /\ result2.ok

Duplicates == cor.center = cor2.center /\ IsRotation(cor.edges, cor2.edges)

(* as claimed, for any two accepted coronas *)
C13_DuplicateIffKey == BothValid => (Duplicates <=> canon = canon2)

(* for two accepted coronas of the same center *)
C13_SameCenterDuplicateIffKey ==
    (BothValid /\ cor.center = cor2.center) => (Duplicates <=> canon = canon2)

(* duplicates given in different segment order and rotation *)
C13_Witness ==
    /\ BothValid
    /\ cor.center = cor2.center
    /\ canon = canon2
    /\ \A k \in 0..3 : cor2.edges # Rotate(cor.edges, k)

(***************************************************************************)
(* C14: a corona whose reversed edge order is not a cyclic rotation of its *)
(* edge order gets a key different from the key of its mirror image, and   *)
(* the center-1 enumeration returns one corona for each of the two: the    *)
(* class of 2,2,3,4 and the class of 2,2,4,3 are both in the list.         *)
(***************************************************************************)
Chiral(edges) == ~IsRotation(edges, Reverse(edges))

Retains(edges) == \E i \in 1..Len(unique) : IsRotation(unique[i].edges, edges)

Walk2234 == << <<Seg(2, 0)>>, <<Seg(2, 0)>>, <<Seg(3, 0)>>, <<Seg(4, 0)>> >>

Walk2243 == << <<Seg(2, 0)>>, <<Seg(2, 0)>>, <<Seg(4, 0)>>, <<Seg(3, 0)>> >>

C14_ReflectionSensitive ==
    /\ (pc = "probed" /\ Len(cor.edges) = NumEdges /\ Chiral(cor.edges)) =>
          /\ canonicalRotationEdges(cor.edges)
                # canonicalRotationEdges(Reverse(cor.edges))
          /\ result.ok =>
                \E i, j \in 1..Len(unique) :
                    /\ i # j
                    /\ IsRotation(unique[i].edges, cor.edges)
                    /\ IsRotation(unique[j].edges, Reverse(cor.edges))
    /\ Returned =>
          /\ Retains(Walk2234)
          /\ Retains(Walk2243)
          /\ ~IsRotation(Walk2234, Walk2243)

C14_Witness ==
    /\ pc = "probed"
    /\ cor.edges = Reverse(Walk2234)
    /\ Chiral(cor.edges)
    /\ result.ok
    /\ IsRotation(cor.edges, Walk2243)

(***************************************************************************)
(* Corona.toCompact                                                        *)
(***************************************************************************)
ChCaret == 94
ChBar == 124

(* `${seg.size}^${seg.offset}` *)
SegToken(seg) == NumStr(seg.size) \o <<ChCaret>> \o NumStr(seg.offset)

(* variant: the tokens are printed in the caller's order *)
EdgeTextUnsorted(edge) ==
    Join([i \in 1..Len(edge) |-> SegToken(edge[i])], <<ChComma>>)

(* edgeSorted.map(...).join(",") on a sorted copy of the edge *)
EdgeText(edge) ==
    LET edgeSorted == SortSegs(edge) IN
    Join([i \in 1..Len(edgeSorted) |-> SegToken(edgeSorted[i])], <<ChComma>>)

(* the number parseInt returns for a text without digits: no integer, and
   not positive; a value outside every range of the inputs stands for it *)
NaN == 0 - 1000000

(* Number.prototype.toString *)
NumberText(n) == IF n = NaN THEN <<78, 97, 78>> ELSE NumStr(n)

toCompact(corona) ==
    LET parts == <<NumberText(corona.center)>>
                    \o [j \in 1..Len(corona.edges) |-> EdgeText(corona.edges[j])]
    IN Join(parts, <<ChBar>>)

(***************************************************************************)
(* The enumeration as one sequential run, and the same candidates handed   *)
(* to parallel workers: each worker validates its candidates on its own    *)
(* and performs the step (key in seen? add key, retain corona) atomically. *)
(* The steps of the workers interleave in every possible way; the order   *)
(* of the shared list is left out: unique is the set of retained coronas. *)
(***************************************************************************)
MaxWorkers == 2
MaxShare == 3

NumCandidates == Len(edgeChoices) * Len(edgeChoices) * Len(edgeChoices) * Len(edgeChoices)

(* the n-th combination of the four nested loops, n from 0, e3 innermost *)
CandidateIdx(n) ==
    LET m == Len(edgeChoices) IN
    <<((n \div (m * m * m)) % m) + 1, ((n \div (m * m)) % m) + 1,
      ((n \div m) % m) + 1, (n % m) + 1>>

Candidate(n) ==
    [center |-> EnumCenter, edges |-> [k \in 1..4 |-> edgeChoices[CandidateIdx(n)[k]]]]

(* the candidates that pass validate, each with its key *)
CandidateKeys ==
    {<<n, canonicalRotationEdges(Candidate(n).edges)>> :
        n \in {m \in 0..(NumCandidates - 1) : validate(Candidate(m), EnumAllowed).ok}}

(* what the sequential loop retains: a valid candidate is pushed when no
   earlier valid candidate has put its key into seen *)
SequentialUnique ==
    {Candidate(t[1]) :
        t \in {u \in CandidateKeys :
                  \A v \in CandidateKeys : v[1] < u[1] => v[2] # u[2]}}

(* the candidates of worker w, in loop order: each worker but the first
   takes MaxShare candidates from the end of the loop, the first the rest *)
ShareFirst(w) ==
    IF w = 1 THEN 0 ELSE NumCandidates - (w - 1) * MaxShare

ShareEnd(w) ==
    IF w = 1 THEN NumCandidates - (MaxWorkers - 1) * MaxShare
    ELSE NumCandidates - (w - 2) * MaxShare

(* worker w about to take candidate n, or finished *)
Taken(w, n) ==
    IF n >= ShareEnd(w) THEN [next |-> n, at |-> "done", held |-> NoCorona]
    ELSE [next |-> n, at |-> "take", held |-> NoCorona]

InitPar ==
    /\ allowed = EnumAllowed
    /\ workers = [w \in 1..MaxWorkers |-> Taken(w, ShareFirst(w))]
    /\ seen = {}
    /\ unique = {}
    /\ pc = "parallel"
    /\ cor = NoCorona
    /\ result = Pending
    /\ idx = <<>>
    /\ made = 0
    /\ valid = 0
    /\ cor2 = NoCorona
    /\ result2 = Pending
    /\ canon = <<>>
    /\ canon2 = <<>>
    /\ text = <<>>
    /\ parsed = NotParsed
    /\ retext = <<>>
    /\ returned = <<>>

(* new Corona(...); if (!cor.validate(allowedSizes).ok) continue *)
WorkerValidate(w) ==
    /\ workers[w].at = "take"
    /\ LET c == Candidate(workers[w].next) IN
       IF validate(c, allowed).ok
         THEN workers' = [workers EXCEPT ![w] = [next |-> workers[w].next,
                                                 at |-> "dedup", held |-> c]]
         ELSE workers' = [workers EXCEPT ![w] = Taken(w, workers[w].next + 1)]
    /\ UNCHANGED <<cor, allowed, result, pc, idx, seen, unique, made, valid,
                   cor2, result2, canon, canon2, text, parsed, retext, returned>>

(* variant: the key is never recorded *)
WorkerDedupNoAdd(w) ==
    /\ workers[w].at = "dedup"
    /\ unique' = unique \cup {workers[w].held}
    /\ workers' = [workers EXCEPT ![w] = Taken(w, workers[w].next + 1)]
    /\ UNCHANGED <<cor, allowed, result, pc, idx, seen, made, valid,
                   cor2, result2, canon, canon2, text, parsed, retext, returned>>

(* atomically: if (seen.has(key)) continue; seen.add(key); unique.push(cor) *)
WorkerDedup(w) ==
    /\ workers[w].at = "dedup"
    /\ LET key == canonicalRotationEdges(workers[w].held.edges) IN
       IF key \in seen
         THEN UNCHANGED <<seen, unique>>
         ELSE seen' = seen \cup {key} /\ unique' = unique \cup {workers[w].held}
    /\ workers' = [workers EXCEPT ![w] = Taken(w, workers[w].next + 1)]
    /\ UNCHANGED <<cor, allowed, result, pc, idx, made, valid,
                   cor2, result2, canon, canon2, text, parsed, retext, returned>>

NextPar == \E w \in 1..MaxWorkers : WorkerValidate(w) \/ WorkerDedup(w)

SpecPar == InitPar /\ [][NextPar]_vars

(***************************************************************************)
(* C15: when every worker has finished, the compact forms of the retained  *)
(* coronas are those of the sequential run.                                *)
(***************************************************************************)
AllDone == pc = "parallel" /\ \A w \in 1..MaxWorkers : workers[w].at = "done"

CompactForms(coronas) == {toCompact(c) : c \in coronas}

KeysOf(coronas) == {canonicalRotationEdges(c.edges) : c \in coronas}

(* as claimed: the same compact forms *)
C15_SameCompactForms ==
    AllDone => CompactForms(unique) = CompactForms(SequentialUnique)

(* the same rotation classes, one retained corona for each, all of them
   valid; which member of a class is retained depends on the interleaving *)
C15_SameRotationClasses ==
    AllDone =>
        /\ KeysOf(unique) = KeysOf(SequentialUnique)
        /\ seen = KeysOf(unique)
        /\ Cardinality(unique) = Cardinality(SequentialUnique)
        /\ Cardinality(KeysOf(unique)) = Cardinality(unique)
        /\ \A c \in unique : validate(c, allowed).ok

(* a run that retained a member the sequential run does not retain *)
C15_Witness ==
    /\ AllDone
    /\ CompactForms(unique) # CompactForms(SequentialUnique)
    /\ Cardinality(unique) = 24

(***************************************************************************)
(* Successive calls of enumerateUniqueCoronasCenter1: seen and unique are  *)
(* locals of the call, created anew on entry.                              *)
(***************************************************************************)
MaxCalls == 2

(* return unique *)
EnumReturn ==
    /\ pc = "done"
    /\ returned' = Append(returned, unique)
    /\ pc' = "returned"
    /\ UNCHANGED <<cor, allowed, result, idx, seen, unique, made, valid,
                   cor2, result2, canon, canon2, text, parsed, retext, workers>>

(* variant: seen outlives the call *)
EnumCallKeepSeen ==
    /\ pc = "returned"
    /\ Len(returned) < MaxCalls
    /\ unique' = <<>>
    /\ idx' = FirstIdx
    /\ made' = 0
    /\ valid' = 0
    /\ pc' = "make"
    /\ UNCHANGED <<cor, allowed, result, seen,
                   cor2, result2, canon, canon2, text, parsed, retext, returned, workers>>

(* the next call: const seen = new Set(); const unique = [] *)
EnumCall ==
    /\ pc = "returned"
    /\ Len(returned) < MaxCalls
    /\ seen' = {}
    /\ unique' = <<>>
    /\ idx' = FirstIdx
    /\ made' = 0
    /\ valid' = 0
    /\ pc' = "make"
    /\ UNCHANGED <<cor, allowed, result,
                   cor2, result2, canon, canon2, text, parsed, retext, returned, workers>>

NextCalls == EnumMake \/ EnumValidate \/ EnumDedup \/ EnumReturn \/ EnumCall

SpecCalls == InitEnum /\ [][NextCalls]_vars

(***************************************************************************)
(* C16: every call returns the same list, the same coronas in the same     *)
(* order, whatever calls were made before it: the 24 coronas the loop      *)
(* retains when it starts from an empty seen set.                          *)
(***************************************************************************)
C16_CallsAgree ==
    \A i \in 1..Len(returned) :
        /\ returned[i] = returned[1]
        /\ Len(returned[i]) = 24
        /\ {returned[i][j] : j \in 1..Len(returned[i])} = SequentialUnique

C16_Witness ==
    /\ Len(returned) >= 2
    /\ returned[2] = returned[1]
    /\ Len(returned[2]) = 24

(***************************************************************************)
(* The caller's corona across calls of validate, toCompact and             *)
(* canonicalRotationEdges, made in any order and any number of times on    *)
(* the same object; cor2 is a copy the caller keeps to itself.             *)
(***************************************************************************)
(* variant: edge.sort(...) orders the caller's array *)
ArgAfterSortInPlace(edge) == SortSegs(edge)

(* [...edge].sort(...): the spread makes the array that is sorted; the
   caller's array is as it was *)
ArgAfterSort(edge) == edge

(* the corona after a call that sorts each of its edges *)
AfterCall(corona) ==
    [center |-> corona.center,
     edges |-> [j \in 1..Len(corona.edges) |-> ArgAfterSort(corona.edges[j])]]

InitFrame ==
    /\ allowed = DefaultAllowed
    /\ \/ \E c \in 1..MaxCenter :
             \E t \in TwoWalkCoronas(c) :
                \E v \in Reordered(t) : cor = [center |-> c, edges |-> v]
       \/ cor \in {[center |-> EnumCenter, edges |-> es] :
                      es \in [1..NumEdges -> StrayEdges]}
    /\ cor2 = cor
    /\ result = Pending
    /\ result2 = Pending
    /\ canon = <<>>
    /\ canon2 = <<>>
    /\ text = <<>>
    /\ pc = "frame"
    /\ idx = <<>>
    /\ seen = {}
    /\ unique = <<>>
    /\ made = 0
    /\ valid = 0
    /\ parsed = NotParsed
    /\ retext = <<>>
    /\ returned = <<>>
    /\ workers = <<>>

CallValidate ==
    /\ pc = "frame"
    /\ result' = validate(cor, allowed)
    /\ cor' = AfterCall(cor)
    /\ UNCHANGED <<allowed, pc, idx, seen, unique, made, valid, cor2, result2,
                   canon, canon2, text, parsed, retext, returned, workers>>

CallToCompact ==
    /\ pc = "frame"
    /\ text' = toCompact(cor)
    /\ cor' = AfterCall(cor)
    /\ UNCHANGED <<allowed, result, pc, idx, seen, unique, made, valid, cor2,
                   result2, canon, canon2, parsed, retext, returned, workers>>

CallCanonical ==
    /\ pc = "frame"
    /\ canon' = canonicalRotationEdges(cor.edges)
    /\ cor' = AfterCall(cor)
    /\ UNCHANGED <<allowed, result, pc, idx, seen, unique, made, valid, cor2,
                   result2, canon2, text, parsed, retext, returned, workers>>

NextFrame == CallValidate \/ CallToCompact \/ CallCanonical

SpecFrame == InitFrame /\ [][NextFrame]_vars

(***************************************************************************)
(* C17: after any sequence of validate, toCompact and                      *)
(* canonicalRotationEdges the corona has the center, the edge order and    *)
(* the segment order the caller supplied, and each call on the shared      *)
(* corona returned what it returns on a fresh copy.                        *)
(***************************************************************************)
C17_InputUntouched ==
    pc = "frame" =>
        /\ cor = cor2
        /\ result # Pending => result = validate(cor2, allowed)
        /\ text # <<>> => text = toCompact(cor2)
        /\ canon # <<>> => canon = canonicalRotationEdges(cor2.edges)

(* all three calls made on a corona with an unsorted edge *)
C17_Witness ==
    /\ pc = "frame"
    /\ result # Pending
    /\ text # <<>>
    /\ canon # <<>>
    /\ \E j \in 1..Len(cor.edges) : SortSegs(cor.edges[j]) # cor.edges[j]

(***************************************************************************)
(* Corona.fromCompact                                                      *)
(***************************************************************************)
ChSpace == 32
ChPlus == 43
ChX == 120

(* the code units \s matches, among those below 128 *)
WhiteSpace == {9, 10, 11, 12, 13, ChSpace}

IsInk(ch) == ch \notin WhiteSpace

(* s.trim().replace(/\s/g, "") *)
StripSpace(str) == SelectSeq(str, IsInk)

(* String.prototype.split on a one-unit separator: the parts from position
   i on, cur being the part under construction *)
RECURSIVE SplitFrom(_, _, _, _)
SplitFrom(str, sep, i, cur) ==
    IF i > Len(str) THEN <<cur>>
    ELSE IF str[i] = sep THEN <<cur>> \o SplitFrom(str, sep, i + 1, <<>>)
    ELSE SplitFrom(str, sep, i + 1, Append(cur, str[i]))

(* variant: the empty text splits into no part at all *)
SplitEmptyToNone(str, sep) == IF str = <<>> THEN <<>> ELSE SplitFrom(str, sep, 1, <<>>)

Split(str, sep) == SplitFrom(str, sep, 1, <<>>)

IsDigit(ch) == ch >= ChZero /\ ch <= ChZero + 9

(* the first position from i on that holds no digit *)
RECURSIVE DigitsEnd(_, _)
DigitsEnd(str, i) ==
    IF i > Len(str) THEN i
    ELSE IF IsDigit(str[i]) THEN DigitsEnd(str, i + 1)
    ELSE i

(* the number written by the digits at positions i .. j - 1 *)
RECURSIVE DigitsValue(_, _, _)
DigitsValue(str, i, j) ==
    IF j <= i THEN 0
    ELSE 10 * DigitsValue(str, i, j - 1) + (str[j - 1] - ChZero)

(* parseInt(str, 10): an optional sign, then the longest run of digits *)
parseInt(str) ==
    LET signed == Len(str) >= 1 /\ str[1] \in {ChMinus, ChPlus}
        start == IF signed THEN 2 ELSE 1
        end == DigitsEnd(str, start)
    IN IF end = start THEN NaN
       ELSE IF signed /\ str[1] = ChMinus THEN 0 - DigitsValue(str, start, end)
       ELSE DigitsValue(str, start, end)

(* variant: /^(\d+)\^(\d+)$/, an offset takes no sign *)
MatchSegUnsigned(tok) ==
    LET p == DigitsEnd(tok, 1)
        q == p + 1
    IN IF /\ p > 1
          /\ p <= Len(tok)
          /\ tok[p] = ChCaret
          /\ q <= Len(tok)
          /\ DigitsEnd(tok, q) = Len(tok) + 1
         THEN p ELSE 0

(* tok.match(/^(\d+)\^(-?\d+)$/): the position of ^ when tok matches, else 0 *)
MatchSeg(tok) ==
    LET p == DigitsEnd(tok, 1)
        q == IF p + 1 <= Len(tok) /\ tok[p + 1] = ChMinus THEN p + 2 ELSE p + 1
    IN IF /\ p > 1
          /\ p <= Len(tok)
          /\ tok[p] = ChCaret
          /\ q <= Len(tok)
          /\ DigitsEnd(tok, q) = Len(tok) + 1
         THEN p ELSE 0

(* { size: parseInt(m[1], 10), offset: parseInt(m[2], 10) } *)
SegOfToken(tok) ==
    LET p == MatchSeg(tok) IN
    Seg(parseInt(SubSeq(tok, 1, p - 1)), parseInt(SubSeq(tok, p + 1, Len(tok))))

Thrown(message, tok) ==
    [ok |-> FALSE, message |-> message, token |-> tok, corona |-> NoCorona]

(* for (const tok of edgeTxt.split(",")) *)
RECURSIVE TokLoop(_, _, _)
TokLoop(toks, k, segs) ==
    IF k > Len(toks) THEN [ok |-> TRUE, token |-> <<>>, segs |-> segs]
    ELSE IF MatchSeg(toks[k]) = 0 THEN [ok |-> FALSE, token |-> toks[k], segs |-> segs]
    ELSE TokLoop(toks, k + 1, Append(segs, SegOfToken(toks[k])))

(* for (let i = 1; i < parts.length; i++), parts[i] being parts[i + 1] here *)
RECURSIVE PartLoop(_, _, _)
PartLoop(parts, i, edges) ==
    IF i >= Len(parts) THEN [ok |-> TRUE, token |-> <<>>, edges |-> edges]
    ELSE LET r == TokLoop(Split(parts[i + 1], ChComma), 1, <<>>) IN
         IF ~r.ok THEN [ok |-> FALSE, token |-> r.token, edges |-> edges]
         ELSE PartLoop(parts, i + 1, Append(edges, r.segs))

(* variant: only too few parts are refused *)
fromCompactAtLeastFive(s) ==
    LET parts == Split(StripSpace(s), ChBar) IN
    IF Len(parts) < 5 THEN Thrown("Expected center + 4 edges", <<>>)
    ELSE LET center == parseInt(parts[1])
             r == PartLoop(parts, 1, <<>>)
         IN IF ~r.ok THEN Thrown("Bad segment token: ", r.token)
            ELSE [ok |-> TRUE, message |-> "none", token |-> <<>>,
                  corona |-> [center |-> center, edges |-> r.edges]]

fromCompact(s) ==
    LET parts == Split(StripSpace(s), ChBar) IN
    IF Len(parts) # 5 THEN Thrown("Expected center + 4 edges", <<>>)
    ELSE LET center == parseInt(parts[1])
             r == PartLoop(parts, 1, <<>>)
         IN IF ~r.ok THEN Thrown("Bad segment token: ", r.token)
            ELSE [ok |-> TRUE, message |-> "none", token |-> <<>>,
                  corona |-> [center |-> center, edges |-> r.edges]]

(***************************************************************************)
(* Printing and parsing: a caller prints a corona, parses the text and     *)
(* prints the parsed corona again; or parses a text of its own.            *)
(***************************************************************************)
MaxEdgeParts == 5

(* segments as a caller may write them: several digits, any sign *)
CodecSegs == {Seg(sz, o) : sz \in {0 - 1, 0, 2, 12}, o \in {0 - 1, 0, 10}}

CodecEdges == SeqsUpTo(CodecSegs, MaxSegs)

(* one arbitrary edge, at any index, among three copies of 2^0 *)
CodecCoronas ==
    {[center |-> c, edges |-> [k \in 1..NumEdges |-> IF k = i THEN e ELSE <<Seg(2, 0)>>]] :
        c \in CenterDomain, i \in 1..NumEdges, e \in CodecEdges}

(* 2^0, 12^-1, 03^1, 2 ^0, 2^-0 *)
GoodTokens ==
    {SegToken(Seg(2, 0)), SegToken(Seg(12, 0 - 1)), <<ChZero>> \o SegToken(Seg(3, 1)),
     NumStr(2) \o <<ChSpace, ChCaret>> \o NumStr(0),
     NumStr(2) \o <<ChCaret, ChMinus>> \o NumStr(0)}

(* the empty token, 2^, ^0, x, -2^0, 2^0^1, 2^-, 2^0x *)
BadTokens ==
    {<<>>, NumStr(2) \o <<ChCaret>>, <<ChCaret>> \o NumStr(0), <<ChX>>,
     <<ChMinus>> \o SegToken(Seg(2, 0)), SegToken(Seg(2, 0)) \o <<ChCaret>> \o NumStr(1),
     NumStr(2) \o <<ChCaret, ChMinus>>, SegToken(Seg(2, 0)) \o <<ChX>>}

TokenPool == GoodTokens \cup BadTokens

(* an edge part of one token, or of two with 2^0 before or 3^2 after *)
EdgePool ==
    TokenPool
        \cup {SegToken(Seg(2, 0)) \o <<ChComma>> \o t : t \in TokenPool}
        \cup {t \o <<ChComma>> \o SegToken(Seg(3, 2)) : t \in TokenPool}

(* 1, 0, -1, the empty text, x, 12x *)
CenterTexts == {NumStr(1), NumStr(0), NumStr(0 - 1), <<>>, <<ChX>>, NumStr(12) \o <<ChX>>}

(* a center and n edge parts: part i from EdgePool, a later part j from a
   few tokens, every other part 2^0 *)
CompactTexts ==
    UNION {{Join(<<c>> \o [k \in 1..n |-> IF k = i THEN e
                                         ELSE IF k = j THEN t
                                         ELSE SegToken(Seg(2, 0))], <<ChBar>>) :
               i \in 1..n, j \in 1..n, e \in EdgePool,
               t \in {<<>>, <<ChX>>, SegToken(Seg(3, 0))}} \cup {c} :
           c \in CenterTexts, n \in 0..MaxEdgeParts}

InitCodec ==
    /\ allowed = DefaultAllowed
    /\ \/ cor \in CodecCoronas /\ text = <<>> /\ pc = "corona"
       \/ cor = NoCorona /\ text \in CompactTexts /\ pc = "text"
    /\ parsed = NotParsed
    /\ retext = <<>>
    /\ result = Pending
    /\ idx = <<>>
    /\ seen = {}
    /\ unique = <<>>
    /\ made = 0
    /\ valid = 0
    /\ cor2 = NoCorona
    /\ result2 = Pending
    /\ canon = <<>>
    /\ canon2 = <<>>
    /\ returned = <<>>
    /\ workers = <<>>

(* text = cor.toCompact() *)
Compact ==
    /\ pc = "corona"
    /\ text' = toCompact(cor)
    /\ pc' = "text"
    /\ UNCHANGED <<cor, allowed, result, idx, seen, unique, made, valid, cor2,
                   result2, canon, canon2, parsed, retext, returned, workers>>

(* parsed = Corona.fromCompact(text), or the Error it throws *)
Parse ==
    /\ pc = "text"
    /\ parsed' = fromCompact(text)
    /\ pc' = "parsed"
    /\ UNCHANGED <<cor, allowed, result, idx, seen, unique, made, valid, cor2,
                   result2, canon, canon2, text, retext, returned, workers>>

(* retext = parsed.toCompact() *)
Recompact ==
    /\ pc = "parsed"
    /\ parsed.ok
    /\ retext' = toCompact(parsed.corona)
    /\ pc' = "reprinted"
    /\ UNCHANGED <<cor, allowed, result, idx, seen, unique, made, valid, cor2,
                   result2, canon, canon2, text, parsed, returned, workers>>

(* result = parsed.validate() *)
ValidateParsed ==
    /\ pc = "parsed"
    /\ parsed.ok
    /\ result' = validateDefault(parsed.corona)
    /\ pc' = "checked"
    /\ UNCHANGED <<cor, allowed, idx, seen, unique, made, valid, cor2,
                   result2, canon, canon2, text, parsed, retext, returned, workers>>

NextCodec == Compact \/ Parse \/ Recompact \/ ValidateParsed

SpecCodec == InitCodec /\ [][NextCodec]_vars

(***************************************************************************)
(* C18: a corona with a positive center, four edges and segments of        *)
(* positive size and integer offset comes back from                        *)
(* fromCompact(toCompact(c)) with the same center and, edge by edge, the   *)
(* same multiset of segments.                                              *)
(***************************************************************************)
Given == cor # NoCorona

AfterParse == pc \in {"parsed", "reprinted"}

Occurrences(edge, seg) == Cardinality({i \in 1..Len(edge) : edge[i] = seg})

SameMultiset(e, f) ==
    /\ Len(e) = Len(f)
    /\ \A i \in 1..Len(e) : Occurrences(e, e[i]) = Occurrences(f, e[i])

WellFormedData(corona) ==
    /\ corona.center >= 1
    /\ Len(corona.edges) = NumEdges
    /\ \A j \in 1..Len(corona.edges) :
          \A i \in 1..Len(corona.edges[j]) : corona.edges[j][i].size >= 1

RoundTrip ==
    /\ parsed.ok
    /\ parsed.corona.center = cor.center
    /\ Len(parsed.corona.edges) = NumEdges
    /\ \A j \in 1..NumEdges : SameMultiset(parsed.corona.edges[j], cor.edges[j])

C18_RoundTrip == (Given /\ AfterParse /\ WellFormedData(cor)) => RoundTrip

(***************************************************************************)
(* C19: toCompact writes the segments of every edge in ascending           *)
(* (offset, size) order whatever order the caller gave, and printing the   *)
(* parsed text again gives the same text.                                  *)
(***************************************************************************)
InOrder(a, b) == a.offset < b.offset \/ (a.offset = b.offset /\ a.size <= b.size)

IsSortedEdge(segs) == \A i, k \in 1..Len(segs) : i < k => InOrder(segs[i], segs[k])

(* the orders the segments of an edge can be written in *)
Orderings(edge) ==
    {o \in [1..Len(edge) -> {edge[i] : i \in 1..Len(edge)}] : SameMultiset(o, edge)}

TokensOf(segs) == Join([i \in 1..Len(segs) |-> SegToken(segs[i])], <<ChComma>>)

EmittedSorted ==
    LET parts == Split(text, ChBar) IN
    /\ Len(parts) = Len(cor.edges) + 1
    /\ \A j \in 1..Len(cor.edges) :
          \E o \in Orderings(cor.edges[j]) : IsSortedEdge(o) /\ parts[j + 1] = TokensOf(o)

(* every edge has a segment and no size is negative *)
Parseable(corona) ==
    \A j \in 1..Len(corona.edges) :
        /\ Len(corona.edges[j]) >= 1
        /\ \A i \in 1..Len(corona.edges[j]) : corona.edges[j][i].size >= 0

(* as claimed, for every corona *)
C19_SortedAndIdempotent ==
    (Given /\ pc # "corona") =>
        /\ EmittedSorted
        /\ AfterParse => parsed.ok
        /\ pc = "reprinted" => retext = text

(* sorted for every corona; idempotent when each edge has a segment and the
   sizes are not negative *)
C19_SortedAndIdempotentNonEmpty ==
    (Given /\ pc # "corona") =>
        /\ EmittedSorted
        /\ (AfterParse /\ Parseable(cor)) => parsed.ok
        /\ AfterParse => (parsed.ok <=> Parseable(cor))
        /\ pc = "reprinted" => retext = text

(* a corona given with an unsorted edge, printed, parsed and printed again *)
C19_Witness ==
    /\ Given
    /\ pc = "reprinted"
    /\ \E j \in 1..NumEdges : ~IsSortedEdge(cor.edges[j])
    /\ retext = text

(***************************************************************************)
(* C20: fromCompact fails with "Expected center + 4 edges" when the text   *)
(* without whitespace does not split on | into 5 parts; with 5 parts it     *)
(* fails with "Bad segment token: " and the first token, in reading order,  *)
(* that is not digits ^ optional minus digits; otherwise it returns a       *)
(* corona of 4 edges with one segment per token.  A failure returns no      *)
(* corona at all.                                                          *)
(***************************************************************************)
Bars(str) == Cardinality({i \in 1..Len(str) : str[i] = ChBar})

Commas(str) == Cardinality({i \in 1..Len(str) : str[i] = ChComma})

AllDigits(str, from, to) == from <= to /\ \A i \in from..to : IsDigit(str[i])

WellFormedToken(tok) ==
    \E p \in 1..Len(tok) :
        /\ tok[p] = ChCaret
        /\ AllDigits(tok, 1, p - 1)
        /\ \/ AllDigits(tok, p + 1, Len(tok))
           \/ p + 1 <= Len(tok) /\ tok[p + 1] = ChMinus /\ AllDigits(tok, p + 2, Len(tok))

(* the tokens of the four edge parts, in reading order *)
TokensIn(parts) ==
    Split(parts[2], ChComma) \o Split(parts[3], ChComma)
        \o Split(parts[4], ChComma) \o Split(parts[5], ChComma)

Malformed(toks) == {k \in 1..Len(toks) : ~WellFormedToken(toks[k])}

FirstOf(places) == CHOOSE k \in places : \A q \in places : k <= q

C20_ParseFailures ==
    AfterParse =>
        LET stripped == StripSpace(text) IN
        IF Bars(stripped) # 4
          THEN parsed = Thrown("Expected center + 4 edges", <<>>)
          ELSE LET parts == Split(stripped, ChBar)
                   toks == TokensIn(parts)
                   bad == Malformed(toks)
               IN IF bad # {}
                    THEN parsed = Thrown("Bad segment token: ", toks[FirstOf(bad)])
                    ELSE /\ parsed.ok
                         /\ parsed.message = "none"
                         /\ Len(parsed.corona.edges) = NumEdges
                         /\ \A j \in 1..NumEdges :
                               /\ Len(parsed.corona.edges[j]) = Commas(parts[j + 1]) + 1
                               /\ \A k \in 1..Len(parsed.corona.edges[j]) :
                                     /\ parsed.corona.edges[j][k].size >= 0
                                     /\ parsed.corona.edges[j][k].offset # NaN

(* a text of five parts with two malformed tokens: the first is reported *)
C20_Witness ==
    /\ pc = "parsed"
    /\ ~Given
    /\ parsed.message = "Bad segment token: "
    /\ parsed.token = <<ChX>>
    /\ parsed.corona = NoCorona
    /\ Bars(StripSpace(text)) = 4
    /\ LET toks == TokensIn(Split(StripSpace(text), ChBar)) IN
       /\ Cardinality(Malformed(toks)) >= 2
       /\ FirstOf(Malformed(toks)) >= 2
       /\ toks[Len(toks)] = <<>>

(***************************************************************************)
(* Specification of check order: coronas with faults in two edges          *)
(***************************************************************************)
(* edges that break one check each at most centers: empty, size, offset,
   center-sized aligned, equal adjacent sizes, start, walk, coverage *)
FaultEdges(c) ==
    {<<>>,
     <<Seg(5, 0)>>,
     <<Seg(2, 0 - 1)>>,
     <<Seg(c, 0)>>,
     <<Seg(3, 0), Seg(3, 3)>>,
     <<Seg(2, 1)>>,
     <<Seg(1, 0), Seg(3, 2)>>,
     <<Seg(1, 0)>>}

(* two faulty edges at indices i < j among two walks *)
TwoFaultCorona(corona, c, allowedSizes) ==
    \E i \in 1..NumEdges :
      \E j \in (i + 1)..NumEdges :
        \E f \in FaultEdges(c), g \in FaultEdges(c) :
          \E w \in Walks(c, allowedSizes), v \in Walks(c, allowedSizes) :
            LET rest == (1..NumEdges) \ {i, j}
                low == CHOOSE k \in rest : \A m \in rest : k <= m
            IN corona = [center |-> c,
                         edges |-> [k \in 1..NumEdges |->
                                      IF k = i THEN f
                                      ELSE IF k = j THEN g
                                      ELSE IF k = low THEN w ELSE v]]

(* a wrong number of edges, the first of them faulty *)
FaultCountCorona(corona, c, allowedSizes) ==
    \E f \in FaultEdges(c), w \in PlainWalks(c, allowedSizes) :
      \E n \in (1..(NumEdges + 1)) \ {NumEdges} :
        corona = [center |-> c, edges |-> [k \in 1..n |-> IF k = 1 THEN f ELSE w]]

InitOrder ==
    /\ allowed \in AllowedChoices
    /\ \E c \in CenterDomain :
          \/ TwoFaultCorona(cor, c, allowed)
          \/ FaultCountCorona(cor, c, allowed)
          \/ WalkCorona(cor, c, allowed)
    /\ result = Pending
    /\ pc = "input"
    /\ idx = <<>>
    /\ seen = {}
    /\ unique = <<>>
    /\ made = 0
    /\ valid = 0
    /\ InitAux

NextOrder == Validate

SpecOrder == InitOrder /\ [][NextOrder]_vars

(* indices of the edges that fail an edge rule *)
FailingEdges(corona, allowedSizes) ==
    {k \in 0..(Len(corona.edges) - 1) :
        ~EdgeRules(corona.edges[k + 1], corona.center, allowedSizes)}

LowestOf(S) == CHOOSE k \in S : \A m \in S : k <= m

(* C21: the center check comes before the edge-count check, which comes before
   every edge check; edges are examined in index order and the reported reason
   and edge index belong to the lowest-index failing edge; the corner-gap
   reason is returned only when all four edges pass the edge rules. *)
C21_CheckOrder ==
    Validated =>
        LET failing == FailingEdges(cor, allowed) IN
        /\ cor.center <= 0 => result.reason = "center must be a positive integer"
        /\ (cor.center > 0 /\ Len(cor.edges) # 4) =>
              result.reason = "edges must have length 4"
        /\ (cor.center > 0 /\ Len(cor.edges) = 4 /\ failing # {}) =>
              /\ result.where.ei = LowestOf(failing)
              /\ result.reason =
                    SegmentOrderReason(cor.edges[LowestOf(failing) + 1], cor.center, allowed)
        /\ result.reason = CornerReason => (Len(cor.edges) = 4 /\ failing = {})

(* two edges fail for different reasons and the first of them is not edge 0 *)
C21_Witness ==
    /\ Validated
    /\ cor.center > 0
    /\ Len(cor.edges) = 4
    /\ Cardinality(FailingEdges(cor, allowed)) = 2
    /\ result.where.ei = 1
    /\ \E k \in FailingEdges(cor, allowed) :
          /\ k > 1
          /\ SegmentOrderReason(cor.edges[k + 1], cor.center, allowed) # result.reason

(***************************************************************************)
(* Specification of the size check: allowedSizes given or left out         *)
(***************************************************************************)
(* allowedSizes arguments, among them lists with 0 and with a negative number *)
SizeChoices == {DefaultAllowed, {0, 1, 3}, {0 - 1, 0, 1, 3}}

SizedSegs(c) == {Seg(s, o) : s \in {0 - 1, 0, 1, 3, 5}, o \in {0 - 1, 0, c}}

SizedEdges(c) == SeqsUpTo(SizedSegs(c), MaxSegs)

(* a walk that passes the edge checks under every list of SizeChoices *)
SizedWalk(c) == IF c = 3 THEN <<Seg(1, 0), Seg(3, 1)>> ELSE <<Seg(3, 0)>>

InitSizes ==
    /\ allowed \in SizeChoices
    /\ \E c \in 1..MaxCenter, i \in 1..NumEdges :
          \E e \in SizedEdges(c) :
              cor = [center |-> c,
                     edges |-> [k \in 1..NumEdges |-> IF k = i THEN e ELSE SizedWalk(c)]]
    /\ result = Pending
    /\ pc = "input"
    /\ idx = <<>>
    /\ seen = {}
    /\ unique = <<>>
    /\ made = 0
    /\ valid = 0
    /\ InitAux

ValidateNoArg ==
    /\ pc = "input"
    /\ result' = validateDefault(cor)
    /\ pc' = "defaulted"
    /\ UNCHANGED <<cor, allowed, idx, seen, unique, made, valid, aux>>

NextSizes == Validate \/ ValidateNoArg

SpecSizes == InitSizes /\ [][NextSizes]_vars

(* the size of a segment is refused under a list of sizes *)
BadSize(seg, sizes) == seg.size \notin sizes \/ seg.size <= 0

(* the segments validate looks at: those of the lowest failing edge, in sorted
   order, up to and including the first with a fault of its own *)
ExaminedSegs(corona, sizes) ==
    LET failing == FailingEdges(corona, sizes) IN
    IF failing = {} THEN {}
    ELSE LET s == SortSegs(corona.edges[LowestOf(failing) + 1])
             bad == {i \in 1..Len(s) : SegFault(s[i], corona.center, sizes) # NoReason}
         IN IF bad = {} THEN {}
            ELSE {s[i] : i \in 1..LowestOf(bad)}

(* what the claim says about a result r computed under a list of sizes *)
SizeRejected(r, corona, sizes) ==
    /\ r.ok => \A k \in 1..NumEdges :
                 \A seg \in SegsOf(corona.edges[k]) : ~BadSize(seg, sizes)
    /\ \A seg \in ExaminedSegs(corona, sizes) :
          BadSize(seg, sizes) =>
              (~r.ok /\ r.reason = SizeReason /\ r.where.segs = <<seg>>)

(* C22: a segment is refused with "invalid segment size" when its size is not
   in allowedSizes or is not positive, even when allowedSizes holds 0 or a
   negative number; validate() without an argument gives the result of
   validate([1,2,3,4]), so sizes 5 and 0 are refused by default. *)
C22_SizeCheck ==
    /\ Validated => SizeRejected(result, cor, allowed)
    /\ pc = "defaulted" =>
          /\ result = validate(cor, {1, 2, 3, 4})
          /\ SizeRejected(result, cor, {1, 2, 3, 4})
          /\ result.ok => \A k \in 1..NumEdges :
                             \A seg \in SegsOf(cor.edges[k]) : seg.size \notin {0, 5}

(* a size that is a member of allowedSizes is refused because it is negative *)
C22_Witness ==
    /\ Validated
    /\ result.reason = SizeReason
    /\ result.where.segs[1].size \in allowed
    /\ result.where.segs[1].size < 0

(***************************************************************************)
(* Parsing, then validation                                                *)
(***************************************************************************)
Checked == pc = "checked"

(* the center part reads 0 or a negative number *)
NonPositiveText(str) ==
    \/ str = NumStr(0)
    \/ Len(str) >= 2 /\ str[1] = ChMinus /\ AllDigits(str, 2, Len(str))

(* the offset of a token is written with a minus sign *)
MinusOffset(tok) ==
    \E p \in 1..(Len(tok) - 1) : tok[p] = ChCaret /\ tok[p + 1] = ChMinus

(* a text of five parts whose tokens are all well formed *)
FiveGoodParts(stripped) ==
    Bars(stripped) = 4 /\ Malformed(TokensIn(Split(stripped, ChBar))) = {}

ParsedSegs == UNION {SegsOf(parsed.corona.edges[j]) : j \in 1..Len(parsed.corona.edges)}

(* nothing is validated before it is parsed *)
ParseFirst ==
    /\ pc \in {"corona", "text", "parsed", "reprinted"} => result = Pending
    /\ Checked => parsed.ok

(* C23 as stated: a text with center 0, a negative center or an offset written
   with a minus sign parses into a corona, and validate rejects every corona
   parsed from such a text; parsing comes before validation. *)
C23_ParsedThenRejected ==
    /\ ParseFirst
    /\ (pc \in {"parsed", "checked"} /\ FiveGoodParts(StripSpace(text))) =>
          LET parts == Split(StripSpace(text), ChBar)
              toks == TokensIn(parts)
          IN (NonPositiveText(parts[1]) \/ \E k \in 1..Len(toks) : MinusOffset(toks[k])) =>
                /\ parsed.ok
                /\ Checked => ~result.ok

(* C23 amended: such a text parses into a corona that keeps the value of the
   center and of every offset; validate rejects the parsed corona when its
   center is 0 or negative or one of its offsets has a negative value; an
   offset written -0 has the value 0 and does not make validate reject. *)
C23_ParsedThenRejectedByValue ==
    /\ ParseFirst
    /\ (pc \in {"parsed", "checked"} /\ FiveGoodParts(StripSpace(text))) =>
          LET parts == Split(StripSpace(text), ChBar)
              toks == TokensIn(parts)
          IN /\ parsed.ok
             /\ NonPositiveText(parts[1]) => parsed.corona.center <= 0
             /\ \A k \in 1..Len(toks) :
                   MinusOffset(toks[k]) =>
                       \E seg \in ParsedSegs :
                           /\ seg.offset <= 0
                           /\ SegToken(seg) = toks[k] \/ seg.offset = 0
             /\ (Checked /\ (parsed.corona.center <= 0
                              \/ \E seg \in ParsedSegs : seg.offset < 0)) => ~result.ok

(* a text with a negative offset is parsed and then refused for that offset *)
C23_Witness ==
    /\ Checked
    /\ parsed.corona.center = 1
    /\ \E seg \in ParsedSegs : seg.offset < 0
    /\ result.reason = OffsetReason

(***************************************************************************)
(* Order of the returned list                                              *)
(***************************************************************************)
(* the place of a candidate in the nested loops: edge 0 outermost, edge 3
   innermost, sizes tried in the order 2, 3, 4 *)
LoopRank(edges) ==
    27 * (edges[1][1].size - 2) + 9 * (edges[2][1].size - 2)
        + 3 * (edges[3][1].size - 2) + (edges[4][1].size - 2)

(* 1|2^0|2^0|2^0|2^0 *)
FirstListed ==
    <<49, 124, 50, 94, 48, 124, 50, 94, 48, 124, 50, 94, 48, 124, 50, 94, 48>>

(* 1|2^0|2^0|2^0|3^0 *)
SecondListed ==
    <<49, 124, 50, 94, 48, 124, 50, 94, 48, 124, 50, 94, 48, 124, 51, 94, 48>>

(* C24: the retained coronas are listed in the order the nested loops meet
   them, each is the first member of its rotation class in that order, and the
   returned list starts with 1|2^0|2^0|2^0|2^0 and 1|2^0|2^0|2^0|3^0. *)
C24_FirstEncounteredOrder ==
    /\ pc \in {"make", "validate", "dedup"} =>
          \A p \in 1..Len(unique) :
              /\ \A q \in (p + 1)..Len(unique) :
                    LoopRank(unique[p].edges) < LoopRank(unique[q].edges)
              /\ \A k \in 0..3 :
                    LoopRank(unique[p].edges) <= LoopRank(Rotate(unique[p].edges, k))
    /\ pc = "done" =>
          /\ toCompact(unique[1]) = FirstListed
          /\ toCompact(unique[2]) = SecondListed
          /\ \A p \in 1..(Len(unique) - 1) :
                LoopRank(unique[p].edges) < LoopRank(unique[p + 1].edges)

(* a later member of the rotation class of the second entry is met *)
C24_Witness ==
    /\ pc = "dedup"
    /\ Len(unique) >= 2
    /\ toCompact(unique[2]) = SecondListed
    /\ LoopRank(cor.edges) > LoopRank(unique[2].edges)
    /\ IsRotation(cor.edges, unique[2].edges)
    /\ canonicalRotationEdges(cor.edges) \in seen

(***************************************************************************)
(* Validity under rotation                                                 *)
(***************************************************************************)
RotatedPair ==
    /\ pc = "keyed"
    /\ cor2.center = cor.center
    /\ \E k \in 0..3 : cor2.edges = Rotate(cor.edges, k)

(* C25: validate gives a corona and each of its cyclic rotations the same ok
   (reason and location may differ), so a corona dropped by the enumerator
   for having the key of a retained one has the validity of the retained one. *)
C25_RotationKeepsValidity ==
    /\ RotatedPair => result2.ok = result.ok
    /\ (pc = "keyed" /\ cor2.center = cor.center /\ canon2 = canon) =>
          result2.ok = result.ok

(* a corona and a proper rotation are both refused for a corner gap, with
   the last-segment sizes reported in a different order *)
C25_Witness ==
    /\ RotatedPair
    /\ cor2.edges # cor.edges
    /\ result.reason = CornerReason
    /\ result2.reason = CornerReason
    /\ result2.where # result.where

(***************************************************************************)
(* Specification of segment order: a corona and the same corona with the   *)
(* segments of its edges given in another order                            *)
(***************************************************************************)
(* segments with offsets and sizes that tie: sizes 0, 1, 2 and the center,
   offsets -1, 0, 1 and the center *)
PermSegs(c) == {Seg(s, o) : s \in {0, 1, 2, c}, o \in {0 - 1, 0, 1, c}}

(* the orders a caller can give the segments of an edge in *)
SegOrders(edge) ==
    {[i \in 1..Len(edge) |-> edge[f[i]]] :
        f \in {g \in [1..Len(edge) -> 1..Len(edge)] :
                 \A a, b \in 1..Len(edge) : a # b => g[a] # g[b]}}

InitPerm ==
    /\ allowed = DefaultAllowed
    /\ \E c \in 1..MaxCenter :
          \/ \E e \in SeqsUpTo(PermSegs(c), MaxSegs), w \in PlainWalks(c, DefaultAllowed) :
                \E p \in SegOrders(e) :
                    /\ cor = [center |-> c, edges |-> <<w, e, w, w>>]
                    /\ cor2 = [center |-> c, edges |-> <<w, p, w, w>>]
          \/ /\ cor \in TwoWalkCoronas(c)
             /\ \E b \in [1..NumEdges -> BOOLEAN] :
                   cor2 = [center |-> c,
                           edges |-> [k \in 1..NumEdges |->
                                        IF b[k] THEN Reverse(cor.edges[k])
                                        ELSE cor.edges[k]]]
    /\ result = Pending
    /\ result2 = Pending
    /\ canon = <<>>
    /\ canon2 = <<>>
    /\ pc = "pair"
    /\ idx = <<>>
    /\ seen = {}
    /\ unique = <<>>
    /\ made = 0
    /\ valid = 0
    /\ text = <<>>
    /\ parsed = NotParsed
    /\ retext = <<>>
    /\ returned = <<>>
    /\ workers = <<>>

NextPerm == KeyPair

SpecPerm == InitPerm /\ [][NextPerm]_vars

(* the second corona has the segments of the first, edge by edge *)
PermutedPair ==
    /\ pc = "keyed"
    /\ cor2.center = cor.center
    /\ Len(cor2.edges) = Len(cor.edges)
    /\ \A j \in 1..Len(cor.edges) : SameMultiset(cor2.edges[j], cor.edges[j])

(* C26: whatever the order of the segments inside each edge, validate returns
   the same ok and the same reason and canonicalRotationEdges the same key,
   also when the corner step, which sorts by offset only, decides. *)
C26_SegmentOrderIrrelevant ==
    PermutedPair =>
        /\ result2.ok = result.ok
        /\ result2.reason = result.reason
        /\ canon2 = canon

(* edges given in different orders, the corner step refusing both coronas *)
C26_Witness ==
    /\ PermutedPair
    /\ \E j \in 1..NumEdges :
          cor2.edges[j] # cor.edges[j] /\ SortSegs(cor2.edges[j]) # cor2.edges[j]
    /\ result.reason = CornerReason
    /\ result2.reason = CornerReason

(***************************************************************************)
(* Specification of long walks: a center of 3 and edges of three segments  *)
(***************************************************************************)
LongCenter == 3
LongSegs == 3

(* sizes of the default list at the offsets in range *)
LongEdges == SeqsUpTo({Seg(s, o) : s \in DefaultAllowed, o \in 0..LongCenter}, LongSegs)

(* 2^0,4^2 *)
LongWalk == <<Seg(2, 0), Seg(4, 2)>>

(* 3|1^0,2^1,4^3|2^0,4^2|2^0,4^2|2^0,4^2 *)
OverrunCorona ==
    [center |-> 3,
     edges |-> <<<<Seg(1, 0), Seg(2, 1), Seg(4, 3)>>, LongWalk, LongWalk, LongWalk>>]

InitLong ==
    /\ allowed = DefaultAllowed
    /\ \/ cor = OverrunCorona
       \/ \E e \in LongEdges :
             cor = [center |-> LongCenter, edges |-> <<e, LongWalk, LongWalk, LongWalk>>]
    /\ result = Pending
    /\ pc = "input"
    /\ idx = <<>>
    /\ seen = {}
    /\ unique = <<>>
    /\ made = 0
    /\ valid = 0
    /\ InitAux

NextLong == Validate

SpecLong == InitLong /\ [][NextLong]_vars

LargestOf(S) == CHOOSE k \in S : \A m \in S : m <= k

(* what the claim says of an edge that passes the edge checks *)
AcceptedEdgeShape(edge, c, allowedSizes) ==
    LET s == SortSegs(edge)
        end == s[Len(s)].offset + s[Len(s)].size
    IN /\ \A i \in 1..(Len(s) - 1) : s[i].offset < s[i + 1].offset
       /\ Cardinality({i \in 1..Len(s) : s[i].offset = c}) <= 1
       /\ end - c >= 0
       /\ end - c <= LargestOf(allowedSizes)

(* a walk that ends exactly at the center takes one more segment there *)
MayOverrun(edge, c, allowedSizes) ==
    LET s == SortSegs(edge)
        last == s[Len(s)]
    IN last.offset + last.size = c =>
          \A sz \in allowedSizes \ {last.size} :
              sz > 0 => validateEdge(Append(s, Seg(sz, c)), c, allowedSizes, 0).ok

(* C27: a walk that ends exactly at the center may carry one more segment at
   offset = center and is still accepted, as in
   3|1^0,2^1,4^3|2^0,4^2|2^0,4^2|2^0,4^2; in every accepted edge the offsets
   increase strictly, at most one segment has offset = center, and the
   overhang lies between 0 and the largest allowed size. *)
C27_WalkMayOverrun ==
    Validated =>
        /\ cor = OverrunCorona => result.ok
        /\ (result.ok \/ result.reason = CornerReason) =>
              \A j \in 1..NumEdges :
                  /\ AcceptedEdgeShape(cor.edges[j], cor.center, allowed)
                  /\ MayOverrun(cor.edges[j], cor.center, allowed)

(* the corona of the example is accepted: its first edge reaches the center
   with two segments and carries a third at offset = center *)
C27_Witness ==
    /\ Validated
    /\ result.ok
    /\ Len(cor.edges[1]) = 3
    /\ cor.edges[1][2].offset + cor.edges[1][2].size = cor.center
    /\ cor.edges[1][3].offset = cor.center

(***************************************************************************)
(* generate.js: the standalone copy of the validator and the enumerator    *)
(***************************************************************************)
(* Corona.validate of generate.js: the same checks up to the edge loop and
   no corner step; of its result the fields ok and reason are kept *)
validateJs(corona, allowedSizes) ==
    LET c == corona.center IN
    IF c <= 0
      THEN [ok |-> FALSE, reason |-> "center must be a positive integer"]
    ELSE IF Len(corona.edges) # 4
      THEN [ok |-> FALSE, reason |-> "edges must have length 4"]
    ELSE LET r == EdgeLoop(corona.edges, 0, c, allowedSizes) IN
         [ok |-> r.ok, reason |-> r.reason]

(* continue, or fall out of the loops of generate.js *)
GenContinue ==
    IF idx = LastIdx
      THEN pc' = "gdone" /\ idx' = idx
      ELSE pc' = "gmake" /\ idx' = NextIdx(idx)

(* node generate.js, after corona-finder.ts has returned its list *)
GenCall ==
    /\ pc = "returned"
    /\ seen' = {}
    /\ unique' = <<>>
    /\ idx' = FirstIdx
    /\ made' = 0
    /\ valid' = 0
    /\ pc' = "gmake"
    /\ UNCHANGED <<cor, allowed, result,
                   cor2, result2, canon, canon2, text, parsed, retext, returned, workers>>

GenMake ==
    /\ pc = "gmake"
    /\ cor' = [center |-> EnumCenter, edges |-> [k \in 1..4 |-> edgeChoices[idx[k]]]]
    /\ made' = made + 1
    /\ pc' = "gvalidate"
    /\ UNCHANGED <<allowed, result, idx, seen, unique, valid, aux>>

GenValidate ==
    /\ pc = "gvalidate"
    /\ result2' = validateJs(cor, allowed)
    /\ IF result2'.ok
         THEN pc' = "gdedup" /\ valid' = valid + 1 /\ idx' = idx
         ELSE GenContinue /\ valid' = valid
    /\ UNCHANGED <<cor, allowed, result, seen, unique, made,
                   cor2, canon, canon2, text, parsed, retext, returned, workers>>

GenDedup ==
    /\ pc = "gdedup"
    /\ LET key == canonicalRotationEdges(cor.edges) IN
       IF key \in seen
         THEN UNCHANGED <<seen, unique>>
         ELSE seen' = seen \cup {key} /\ unique' = Append(unique, cor)
    /\ GenContinue
    /\ UNCHANGED <<cor, allowed, result, made, valid, aux>>

(* both validators on a corona of the caller *)
ValidateBoth ==
    /\ pc = "input"
    /\ result' = validate(cor, allowed)
    /\ result2' = validateJs(cor, allowed)
    /\ pc' = "both"
    /\ UNCHANGED <<cor, allowed, idx, seen, unique, made, valid,
                   cor2, canon, canon2, text, parsed, retext, returned, workers>>

InitGen == InitEnum \/ InitOrder

NextGen ==
    \/ EnumMake \/ EnumValidate \/ EnumDedup \/ EnumReturn
    \/ GenCall \/ GenMake \/ GenValidate \/ GenDedup
    \/ ValidateBoth

SpecGen == InitGen /\ [][NextGen]_vars

(* no corner has overhang 1 followed by a first segment of size 1 *)
NoGapCorner(corona) ==
    ~(/\ Len(corona.edges) = 4
      /\ \A k \in 1..4 : RuleNonEmpty(corona.edges[k])
      /\ SomeCornerGap(corona.edges, corona.center))

(* C28: generate.js, whose validator has no corner-gap rule, returns the same
   list of 24 coronas for center 1 as corona-finder.ts; the two validators
   give the same verdict and reason on every corona in which no corner has
   overhang 1 followed by a first segment of size 1. *)
C28_GeneratorsAgree ==
    /\ pc = "gdone" => (unique = returned[1] /\ Len(unique) = 24)
    /\ (pc = "both" /\ NoGapCorner(cor)) =>
          (result2.ok = result.ok /\ result2.reason = result.reason)

(* generate.js has finished and its list is the list of corona-finder.ts *)
C28_Witness ==
    /\ pc = "gdone"
    /\ valid = 81
    /\ Len(returned) = 1
    /\ unique = returned[1]

(***************************************************************************)
(* Empty edges and the compact text                                        *)
(***************************************************************************)
HasEmptyEdge(corona) == \E j \in 1..Len(corona.edges) : corona.edges[j] = <<>>

(* C29: toCompact writes an empty edge as an empty part and fromCompact
   refuses that text with "Bad segment token"; every corona fromCompact
   returns has 4 edges of at least one segment each, so validating it never
   gives "edges must have length 4" or "edge empty". *)
C29_EmptyEdgeNotParsed ==
    /\ (Given /\ pc # "corona" /\ HasEmptyEdge(cor)) =>
          /\ \A j \in 1..NumEdges :
                cor.edges[j] = <<>> => Split(text, ChBar)[j + 1] = <<>>
          /\ AfterParse => (~parsed.ok /\ parsed.message = "Bad segment token: ")
    /\ parsed.ok =>
          /\ Len(parsed.corona.edges) = 4
          /\ \A j \in 1..4 : Len(parsed.corona.edges[j]) >= 1
    /\ Checked => result.reason \notin {"edges must have length 4", "edge empty"}

(* the text of a corona with an empty edge and nothing else wrong is refused
   for its empty token *)
C29_Witness ==
    /\ Given
    /\ pc = "parsed"
    /\ cor.center = 1
    /\ HasEmptyEdge(cor)
    /\ parsed = Thrown("Bad segment token: ", <<>>)

(***************************************************************************)
(* Specification of reflection: a corona of four walks and the corona with *)
(* its edges in the opposite order                                         *)
(***************************************************************************)
InitMirror ==
    /\ allowed = DefaultAllowed
    /\ \E c \in 1..MaxCenter :
          /\ WalkCorona(cor, c, allowed)
          /\ cor2 = [center |-> c, edges |-> Reverse(cor.edges)]
    /\ result = Pending
    /\ result2 = Pending
    /\ canon = <<>>
    /\ canon2 = <<>>
    /\ pc = "pair"
    /\ idx = <<>>
    /\ seen = {}
    /\ unique = <<>>
    /\ made = 0
    /\ valid = 0
    /\ text = <<>>
    /\ parsed = NotParsed
    /\ retext = <<>>
    /\ returned = <<>>
    /\ workers = <<>>

NextMirror == KeyPair

SpecMirror == InitMirror /\ [][NextMirror]_vars

(* 2|4^0|4^0|1^0,2^1|3^0 *)
MirrorAccepted ==
    [center |-> 2,
     edges |-> <<<<Seg(4, 0)>>, <<Seg(4, 0)>>, <<Seg(1, 0), Seg(2, 1)>>, <<Seg(3, 0)>>>>]

(* 2|3^0|1^0,2^1|4^0|4^0 *)
MirrorRejected ==
    [center |-> 2,
     edges |-> <<<<Seg(3, 0)>>, <<Seg(1, 0), Seg(2, 1)>>, <<Seg(4, 0)>>, <<Seg(4, 0)>>>>]

(* C30: validate accepts 2|4^0|4^0|1^0,2^1|3^0 and refuses the corona with the
   edges in the opposite order, 2|3^0|1^0,2^1|4^0|4^0, with the corner-gap
   reason; whenever a corona of four walks is accepted and its reflection
   refused, the reason is the corner-gap reason, the reflection having a
   corner where overhang 1 meets a first size 1 of the next edge. *)
C30_ReflectionChangesValidity ==
    pc = "keyed" =>
        /\ cor = MirrorAccepted =>
              /\ cor2 = MirrorRejected
              /\ result.ok
              /\ ~result2.ok
              /\ result2.reason = CornerReason
        /\ (result.ok /\ ~result2.ok) =>
              /\ result2.reason = CornerReason
              /\ \E i \in 0..3 : GapAtCorner(cor2.edges, i, cor2.center)
              /\ canon2 # canon

(* the pair of the example *)
C30_Witness ==
    /\ pc = "keyed"
    /\ cor = MirrorAccepted
    /\ cor2 = MirrorRejected
    /\ result.ok
    /\ result2.reason = CornerReason

====
